---- MODULE Spec2Model ----
(***************************************************************************)
(* A model of Munin (ikubaku/Munin): the library analyzer                  *)
(* (src/analyzer.py), the include scanner (src/util.py) and the header /   *)
(* feature database with its extraction-target resolver (src/database.py). *)
(*                                                                         *)
(* Python strings are modelled as sequences of one-character strings, so   *)
(* that splitting, stripping, joining and the regular expressions of the   *)
(* source are computed character by character.  Python dicts are modelled  *)
(* as insertion-ordered sequences of <<key, value>> pairs.                 *)
(***************************************************************************)
EXTENDS Integers, Sequences, FiniteSets, TLC

VARIABLES
    source,                     \* util: the text handed to the include scanner
    filenames,                  \* analyzer: ZipFile.namelist() of one archive
    library_index,              \* Database.library_index.libs
    storage,                    \* the libraries/<name>/<version> directories
    examples,                   \* compute_extract_targets: examples argument
    version_flag,               \* compute_extract_targets: version_flag argument
    header_dict,                \* Database.header_dict
    feature_data,               \* Database.feature_data.libraries
    n_libraries,                \* Analyzer.n_libraries
    n_failed_libraries,         \* Analyzer.n_failed_libraries
    n_example_sketches,         \* Analyzer.n_example_sketches
    n_failed_example_sketches,  \* Analyzer.n_failed_example_sketches
    pc,                         \* position of find_headers: idle / loop / done
    idx,                        \* find_headers: number of libraries processed
    passes,                     \* number of find_headers calls started
    pass_log,                   \* history: what each loop iteration did
    added,                      \* history: arguments of the add_* calls
    disk,                       \* the files of the database root directory
    run,                        \* history: the runs of the find_headers command
    out,                        \* the directory tree below output_path
    hugin_session,              \* job: the HuginSession of gen_session
    ret                         \* the value returned by the last call

vars == <<source, filenames, library_index, storage, examples, version_flag,
          header_dict, feature_data, n_libraries, n_failed_libraries,
          n_example_sketches, n_failed_example_sketches, pc, idx, passes,
          pass_log, added, disk, run, out, hugin_session, ret>>

scanVars == <<source>>
locateVars == <<filenames>>
targetVars == <<examples, version_flag>>
worldVars == <<library_index, storage, disk, run, out, hugin_session>>
dbVars == <<header_dict, feature_data>>
counterVars == <<n_libraries, n_failed_libraries, n_example_sketches,
                 n_failed_example_sketches>>
passVars == <<pc, idx, passes, pass_log>>

----------------------------------------------------------------------------
(* Bounds of the model.                                                    *)

MaxPieces == 5      \* pieces concatenated into one scanned source text
MaxEntries == 3     \* entries of an archive listing handed to the locators
MaxLibs == 3        \* entries of the library index handed to compute_extract_targets
MaxIndex == 2       \* entries of the library index of an analysis pass
MaxFilter == 3      \* triples of an example filter
MaxAdds == 2        \* add_* calls on one Database
MaxRuns == 2        \* runs of the find_headers command
MaxNarrow == 2      \* triples of the example filter of an extraction
MaxCode == 4        \* characters of the text handed to get_code_from
MaxLine == 3        \* line numbers of a CodePosition
MaxColumn == 3      \* column numbers of a CodePosition
MaxJobs == 2        \* jobs added to one HuginSession
MaxPasses == 2      \* find_headers calls on one Analyzer

----------------------------------------------------------------------------
(* Strings as sequences of characters.                                     *)

\* Optional values: Python's None, and a value that is not None
None == [some |-> FALSE, v |-> <<>>]
Some(x) == [some |-> TRUE, v |-> x]

\* the value of F at the value of v (v is computed once)
At(F(_), v) == CHOOSE r \in {F(x) : x \in {v}} : TRUE

Range(s) == {s[i] : i \in DOMAIN s}

StartsWith(s, p) == Len(s) >= Len(p) /\ SubSeq(s, 1, Len(p)) = p

EndsWith(s, p) == Len(s) >= Len(p) /\ SubSeq(s, Len(s) - Len(p) + 1, Len(s)) = p

RECURSIVE Concat(_)
Concat(ss) == IF ss = <<>> THEN <<>> ELSE Head(ss) \o Concat(Tail(ss))

\* sep.join(parts)
RECURSIVE Join(_, _)
Join(parts, sep) ==
    IF parts = <<>> THEN <<>>
    ELSE IF Len(parts) = 1 THEN parts[1]
    ELSE parts[1] \o sep \o Join(Tail(parts), sep)

\* s.split(c) for a one-character separator c
RECURSIVE SplitAcc(_, _, _, _, _)
SplitAcc(s, c, i, cur, acc) ==
    IF i > Len(s) THEN Append(acc, cur)
    ELSE IF s[i] = c THEN SplitAcc(s, c, i + 1, <<>>, Append(acc, cur))
    ELSE SplitAcc(s, c, i + 1, Append(cur, s[i]), acc)

Split(s, c) == At(LAMBDA t : SplitAcc(t, c, 1, <<>>, <<>>), s)

\* s.find(p): the first index (1-based) at which p occurs in s, 0 if none
Find(s, p) ==
    LET hits == {i \in 1..(Len(s) - Len(p) + 1) : SubSeq(s, i, i + Len(p) - 1) = p}
    IN  IF hits = {} THEN 0 ELSE CHOOSE i \in hits : \A j \in hits : i <= j

\* all sequences over S of length at most n
SeqsUpTo(S, n) == UNION {[1..k -> S] : k \in 0..n}

\* the orders in which a Python set may be iterated
Orderings(S) == {s \in [1..Cardinality(S) -> S] : Range(s) = S}

----------------------------------------------------------------------------
(* src/util.py : the include scanner.                                      *)

LineBoundaries == {"\n"}
Whitespace == {" ", "\t", "\n"}

\* str.splitlines(): the k-th line ends before the k-th line boundary, or
\* at the end of the text when no boundary follows the last line
LinesEndingAt(s, ends) ==
    LET End(k) == CHOOSE e \in ends : Cardinality({x \in ends : x < e}) = k - 1
    IN  [k \in 1..Cardinality(ends) |->
            SubSeq(s, IF k = 1 THEN 1 ELSE End(k - 1) + 1, End(k) - 1)]

LineEnds(s) ==
    LET brk == {i \in 1..Len(s) : s[i] \in LineBoundaries}
    IN  brk \cup (IF Len(s) > 0 /\ Len(s) \notin brk THEN {Len(s) + 1} ELSE {})

splitlines(s) == At(LAMBDA ends : LinesEndingAt(s, ends), LineEnds(s))

\* str.strip()
SpanOf(s, ink) ==
    IF ink = {} THEN <<>>
    ELSE SubSeq(s, CHOOSE i \in ink : \A j \in ink : i <= j,
                   CHOOSE i \in ink : \A j \in ink : i >= j)

strip(s) == At(LAMBDA ink : SpanOf(s, ink), {i \in 1..Len(s) : s[i] \notin Whitespace})

IncludeKeyword == <<"#", "i", "n", "c", "l", "u", "d", "e", " ">>
DotH == <<".", "h">>
DotHpp == <<".", "h", "p", "p">>

\* .+[.](h|hpp) matched against the whole of s
HeaderSuffixMatch(s) ==
    \/ EndsWith(s, DotH) /\ Len(s) > Len(DotH)
    \/ EndsWith(s, DotHpp) /\ Len(s) > Len(DotHpp)

\* group 2 of  ^#include ("|<)(.+[.](h|hpp))("|>)$
IncludeGroup2(line) == SubSeq(line, Len(IncludeKeyword) + 2, Len(line) - 1)

\* re.fullmatch(r'^#include ("|<)(.+[.](h|hpp))("|>)$', line) is not None
IncludeMatch(line) ==
    /\ Len(line) >= Len(IncludeKeyword) + 2
    /\ StartsWith(line, IncludeKeyword)
    /\ line[Len(IncludeKeyword) + 1] \in {"\"", "<"}
    /\ line[Len(line)] \in {"\"", ">"}
    /\ HeaderSuffixMatch(IncludeGroup2(line))

\* what one line appends to res
ScanLine(line) == IF IncludeMatch(line) THEN <<IncludeGroup2(line)>> ELSE <<>>

RECURSIVE ScanLines(_, _)
ScanLines(lines, i) ==
    IF i > Len(lines) THEN <<>>
    ELSE At(ScanLine, strip(lines[i])) \o ScanLines(lines, i + 1)

get_included_headers_from_source_code(src) ==
    At(LAMBDA lines : ScanLines(lines, 1), splitlines(src))

----------------------------------------------------------------------------
(* Archives.  An archive is [ok, entries]: ok is FALSE when ZipFile(ar)    *)
(* raises BadZipFile; entries are [name, decodable, text] in namelist()    *)
(* order, decodable telling whether the bytes of the entry decode under    *)
(* the guessed encoding and text being the decoded text.                   *)

Slash == "/"

namelist(ar) == [i \in DOMAIN ar.entries |-> ar.entries[i].name]

\* Path(f).name
Basename(f) == LET segs == Split(f, Slash) IN segs[Len(segs)]

SrcDir == <<"s", "r", "c">>
ExamplesDir == <<"e", "x", "a", "m", "p", "l", "e", "s">>
SlashExamplesSlash == <<Slash>> \o ExamplesDir \o <<Slash>>

\* re.fullmatch(r'^[^/]+/src/[^/]+[.](h|hpp)$', f)
SrcHeaderMatch(f) ==
    LET segs == Split(f, Slash)
    IN  /\ Len(segs) = 3
        /\ segs[1] # <<>>
        /\ segs[2] = SrcDir
        /\ HeaderSuffixMatch(segs[3])

\* re.fullmatch(r'^[^/]+/[^/]+[.](h|hpp)$', f)
RootHeaderMatch(f) ==
    LET segs == Split(f, Slash)
    IN  /\ Len(segs) = 2
        /\ segs[1] # <<>>
        /\ HeaderSuffixMatch(segs[2])

\* [str(Path(f).name) for f in names if Match(f)]
BasenamesOf(names, Match(_)) ==
    LET hits == SelectSeq(names, Match)
    IN  [i \in DOMAIN hits |-> Basename(hits[i])]

\* HeadersInListing without "if len(headers) > 0: return headers": the
\* root directory is searched in every case
HeadersInBothDirectories(names) ==
    BasenamesOf(names, SrcHeaderMatch) \o BasenamesOf(names, RootHeaderMatch)

\* the body of "with z:" in get_headers_for_library
HeadersInListing(names) ==
    LET headers == BasenamesOf(names, SrcHeaderMatch)
    IN  IF Len(headers) > 0 THEN headers
        ELSE BasenamesOf(names, RootHeaderMatch)

\* get_headers_for_library that also returns None when no header is found
get_headers_for_library_or_none(ar) ==
    IF ~ar.ok THEN None
    ELSE IF HeadersInListing(namelist(ar)) = <<>> THEN None
    ELSE Some(HeadersInListing(namelist(ar)))

\* returns None on failure
get_headers_for_library(ar) ==
    IF ~ar.ok THEN None ELSE Some(HeadersInListing(namelist(ar)))

SketchExts == {<<".", "i", "n", "o">>, <<".", "p", "d", "e">>}

\* re.fullmatch(r'^[^/]+/examples/(|.+/)(.+)/\2[.](ino|pde)$', f):
\* after <root>/examples/ and before the extension the text is
\* group1 group2 "/" group2, group1 empty or ending with a slash.
SketchMatch(f) ==
    LET at == Find(f, <<Slash>>)
        rest == SubSeq(f, at, Len(f))
        body == SubSeq(rest, Len(SlashExamplesSlash) + 1, Len(rest) - 4)
        n == Len(body)
    IN  /\ at > 1
        /\ StartsWith(rest, SlashExamplesSlash)
        /\ Len(rest) >= Len(SlashExamplesSlash) + 4
        /\ SubSeq(rest, Len(rest) - 3, Len(rest)) \in SketchExts
        /\ \E k \in 1..n :
              /\ n >= 2 * k + 1
              /\ body[n - k] = Slash
              /\ SubSeq(body, n - 2 * k, n - k - 1) = SubSeq(body, n - k + 1, n)
              /\ LET g1 == SubSeq(body, 1, n - 2 * k - 1)
                 IN  g1 = <<>> \/ (Len(g1) >= 2 /\ g1[Len(g1)] = Slash)

get_example_sketches(names) == SelectSeq(names, SketchMatch)

\* returns None when the bytes of the entry cannot be decoded
stringify_file_in_archive(ar, name) ==
    LET e == ar.entries[CHOOSE i \in DOMAIN ar.entries : ar.entries[i].name = name]
    IN  IF e.decodable THEN Some(e.text) ELSE None

\* s[s.find('/examples/') + len('/examples/'):] without its last component
ExampleNameOf(s) ==
    LET from == Find(s, SlashExamplesSlash) + Len(SlashExamplesSlash)
        tail == SubSeq(s, from, Len(s))
    IN  At(LAMBDA segs : Join(SubSeq(segs, 1, Len(segs) - 1), <<Slash>>),
           Split(tail, Slash))

\* ExamplesLoop that gives up at the first sketch that cannot be decoded
RECURSIVE ExamplesLoopStoppingAtFailure(_, _)
ExamplesLoopStoppingAtFailure(ar, sketches) ==
    IF sketches = <<>> THEN [res |-> <<>>, failed |-> 0]
    ELSE LET res_source == stringify_file_in_archive(ar, Head(sketches))
             Then(more) ==
                 [res |-> <<<<ExampleNameOf(Head(sketches)),
                              get_included_headers_from_source_code(res_source.v)>>>>
                              \o more.res,
                  failed |-> more.failed]
         IN  IF ~res_source.some THEN [res |-> <<>>, failed |-> 1]
             ELSE At(Then, ExamplesLoopStoppingAtFailure(ar, Tail(sketches)))

RECURSIVE ExamplesLoop(_, _)
ExamplesLoop(ar, sketches) ==
    IF sketches = <<>> THEN [res |-> <<>>, failed |-> 0]
    ELSE LET res_source == stringify_file_in_archive(ar, Head(sketches))
             Then(more) ==
                 IF ~res_source.some
                 THEN [res |-> more.res, failed |-> more.failed + 1]
                 ELSE [res |-> <<<<ExampleNameOf(Head(sketches)),
                                   get_included_headers_from_source_code(res_source.v)>>>>
                                   \o more.res,
                       failed |-> more.failed]
         IN  At(Then, ExamplesLoop(ar, Tail(sketches)))

\* returns (is_ok, res); sketches and failed are the amounts it adds to
\* n_example_sketches and n_failed_example_sketches
get_headers_in_examples(ar) ==
    IF ~ar.ok THEN [is_ok |-> FALSE, res |-> <<>>, sketches |-> 0, failed |-> 0]
    ELSE LET Result(sketches, loop) ==
                 [is_ok |-> loop.failed = 0, res |-> loop.res,
                  sketches |-> Len(sketches), failed |-> loop.failed]
         IN  At(LAMBDA sketches :
                    At(LAMBDA loop : Result(sketches, loop), ExamplesLoop(ar, sketches)),
                get_example_sketches(namelist(ar)))

----------------------------------------------------------------------------
(* Python dicts: insertion-ordered sequences of <<key, value>>.            *)

DictKeys(d) == {d[i][1] : i \in DOMAIN d}

DictHas(d, k) == k \in DictKeys(d)

DictGet(d, k) == d[CHOOSE i \in DOMAIN d : d[i][1] = k][2]

\* d[k] = v
DictPut(d, k, v) ==
    IF DictHas(d, k)
    THEN [i \in DOMAIN d |-> IF d[i][1] = k THEN <<k, v>> ELSE d[i]]
    ELSE Append(d, <<k, v>>)

----------------------------------------------------------------------------
(* semver.compare on versions MAJOR.MINOR.PATCH[+BUILD]: the numeric       *)
(* fields are compared as integers and the build metadata is ignored.      *)

DigitValue == [c \in {"0", "1", "2", "3", "4", "5", "6", "7", "8", "9"} |->
                 CASE c = "0" -> 0 [] c = "1" -> 1 [] c = "2" -> 2 [] c = "3" -> 3
                   [] c = "4" -> 4 [] c = "5" -> 5 [] c = "6" -> 6 [] c = "7" -> 7
                   [] c = "8" -> 8 [] c = "9" -> 9]

RECURSIVE ParseInt(_)
ParseInt(ds) ==
    IF ds = <<>> THEN 0
    ELSE 10 * ParseInt(SubSeq(ds, 1, Len(ds) - 1)) + DigitValue[ds[Len(ds)]]

\* semver.VersionInfo.parse(v): <<major, minor, patch>>
SemverParse(v) ==
    LET core == Split(Split(v, "+")[1], ".")
    IN  <<ParseInt(core[1]), ParseInt(core[2]), ParseInt(core[3])>>

\* semver.compare(a, b): -1, 0 or 1
semver_compare(a, b) ==
    LET x == SemverParse(a)
        y == SemverParse(b)
        d == {i \in 1..3 : x[i] # y[i]}
    IN  IF d = {} THEN 0
        ELSE LET i == CHOOSE j \in d : \A k \in d : j <= k
             IN  IF x[i] < y[i] THEN -1 ELSE 1

----------------------------------------------------------------------------
(* src/database.py : Database and FeatureDatabase.                         *)

ALL_VERSIONS == 0
LATEST_VERSIONS == 1

NewLine == "\n"

\* '{}\n{}'.format(name, version)
LibKey(name, version) == name \o <<NewLine>> \o version

\* the directory libraries/<name>/<version>; meta is "ok" when meta.toml
\* exists with could_download true, "failed" when it is false, "absent"
\* when there is no meta.toml
is_downloaded(name, version) ==
    /\ <<name, version>> \in DOMAIN storage
    /\ storage[<<name, version>>].meta = "ok"

LibraryInfo(name, version) == [name |-> name, version |-> version]

get_library_info_list ==
    LET present == SelectSeq(library_index,
                             LAMBDA lib : is_downloaded(lib.name, lib.version))
    IN  [i \in DOMAIN present |-> LibraryInfo(present[i].name, present[i].version)]

\* the archive list(info.path.glob('*.zip'))[0]
ArchiveOf(info) == storage[<<info.name, info.version>>].archive

\* add_header_dictionary_entry that replaces the set of a header that is
\* already a key instead of adding to it
RECURSIVE add_header_dictionary_entry_replacing(_, _, _)
add_header_dictionary_entry_replacing(hd, lib_info, headers) ==
    IF headers = <<>> THEN hd
    ELSE LET h == Head(headers)
             key == LibKey(lib_info.name, lib_info.version)
         IN  At(LAMBDA d : add_header_dictionary_entry_replacing(d, lib_info, Tail(headers)),
                DictPut(hd, h, {key}))

RECURSIVE add_header_dictionary_entry(_, _, _)
add_header_dictionary_entry(hd, lib_info, headers) ==
    IF headers = <<>> THEN hd
    ELSE LET h == Head(headers)
             key == LibKey(lib_info.name, lib_info.version)
             next == IF DictHas(hd, h)
                     THEN DictPut(hd, h, DictGet(hd, h) \cup {key})
                     ELSE DictPut(hd, h, {key})
         IN  At(LAMBDA d : add_header_dictionary_entry(d, lib_info, Tail(headers)), next)

\* the results search(header_name) can return: one list per iteration
\* order of the set of library keys
search(hd, header_name) ==
    IF ~DictHas(hd, header_name) THEN {<<>>}
    ELSE {[i \in DOMAIN libs |->
              LET values == Split(libs[i], NewLine)
              IN  [name |-> values[1], version |-> values[2]]]
          : libs \in Orderings(DictGet(hd, header_name))}

\* FeatureEntry.set_entry
set_entry(fe, name, headers) == DictPut(fe, name, headers)

\* FeatureDatabase.add_entry; headers is list(headers)
add_entry(libraries, name, version, example, headers) ==
    LET WithVersion(lib) == IF DictHas(lib, version) THEN lib
                            ELSE DictPut(lib, version, <<>>)
        SetIn(lib1) == DictPut(lib1, version,
                               set_entry(DictGet(lib1, version), example, headers))
        SetUnder(libs1) ==
            DictPut(libs1, name, At(SetIn, WithVersion(DictGet(libs1, name))))
    IN  At(SetUnder, IF DictHas(libraries, name) THEN libraries
                     ELSE DictPut(libraries, name, <<>>))

add_feature_database_entry(libraries, lib_info, example_name, headers) ==
    add_entry(libraries, lib_info.name, lib_info.version, example_name, headers)

\* the (name, version, example_name, example_headers) of the three nested
\* loops of search_all_for_headers, in iteration order
FeatureItems(libraries) ==
    Concat([i \in DOMAIN libraries |->
        Concat([j \in DOMAIN libraries[i][2] |->
            [k \in DOMAIN libraries[i][2][j][2] |->
                <<libraries[i][1], libraries[i][2][j][1],
                  libraries[i][2][j][2][k][1], libraries[i][2][j][2][k][2]>>]])])

\* search_all_for_headers without the "len(example_headers) != 0" test
search_all_for_headers_keeping_empty(libraries, headers) ==
    LET hits == SelectSeq(FeatureItems(libraries),
                          LAMBDA it : Range(it[4]) \subseteq Range(headers))
    IN  [i \in DOMAIN hits |-> <<hits[i][1], hits[i][2], hits[i][3]>>]

search_all_for_headers(libraries, headers) ==
    LET hits == SelectSeq(FeatureItems(libraries),
                          LAMBDA it : Len(it[4]) # 0 /\ Range(it[4]) \subseteq Range(headers))
    IN  [i \in DOMAIN hits |-> <<hits[i][1], hits[i][2], hits[i][3]>>]

search_example_sketches(libraries, headers) == search_all_for_headers(libraries, headers)

\* FeatureDatabase.serialize: name -> version -> 'examples' -> example -> list
serialize(libraries) ==
    [i \in DOMAIN libraries |->
        <<libraries[i][1],
          [j \in DOMAIN libraries[i][2] |->
              <<libraries[i][2][j][1],
                IF libraries[i][2][j][2] = <<>> THEN <<>>
                ELSE << <<"examples", libraries[i][2][j][2]>> >> >>]>>]

\* the (name, version, example_name, example_headers) of the three nested
\* loops of deserialize, in iteration order
SerializedItems(serialized) ==
    Concat([i \in DOMAIN serialized |->
        Concat([j \in DOMAIN serialized[i][2] |->
            LET exs == DictGet(serialized[i][2][j][2], "examples")
            IN  [k \in DOMAIN exs |->
                    <<serialized[i][1], serialized[i][2][j][1], exs[k][1], exs[k][2]>>]])])

RECURSIVE AddEntries(_, _, _)
AddEntries(libraries, items, i) ==
    IF i > Len(items) THEN libraries
    ELSE At(LAMBDA libs : AddEntries(libs, items, i + 1),
            add_entry(libraries, items[i][1], items[i][2], items[i][3], items[i][4]))

\* FeatureDatabase.deserialize into the database libraries
deserialize(libraries, serialized) ==
    At(LAMBDA items : AddEntries(libraries, items, 1), SerializedItems(serialized))

\* {'name': name, 'version': version} of a key 'name\nversion'
LibDict(lib) ==
    LET values == Split(lib, NewLine)
    IN  [name |-> values[1], version |-> values[2]]

\* the results serialize_header_dictionary can return from the i-th key on:
\* the libs of a header are listed in the iteration order of its set
RECURSIVE SerializedFrom(_, _)
SerializedFrom(hd, i) ==
    IF i > Len(hd) THEN {<<>>}
    ELSE {<< <<hd[i][1], [j \in DOMAIN libs |-> LibDict(libs[j])]>> >> \o rest :
             libs \in Orderings(hd[i][2]), rest \in SerializedFrom(hd, i + 1)}

\* serialize_header_dictionary that lists one library of each header only
serialize_header_dictionary_first_only(hd) ==
    {[i \in DOMAIN ser |-> <<ser[i][1], SubSeq(ser[i][2], 1, 1)>>] :
        ser \in SerializedFrom(hd, 1)}

serialize_header_dictionary(hd) == SerializedFrom(hd, 1)

deserialize_header_dictionary(dict_from_toml) ==
    [i \in DOMAIN dict_from_toml |->
        <<dict_from_toml[i][1],
          {LibKey(dict_from_toml[i][2][j].name, dict_from_toml[i][2][j].version) :
              j \in DOMAIN dict_from_toml[i][2]}>>]

\* GroupExamples that keeps only the last example name of a key
RECURSIVE GroupExamplesKeepingLast(_, _)
GroupExamplesKeepingLast(exs, temp_dict) ==
    IF exs = <<>> THEN temp_dict
    ELSE GroupExamplesKeepingLast(Tail(exs),
             DictPut(temp_dict, Join(<<Head(exs)[1], Head(exs)[2]>>, <<NewLine>>),
                     <<Head(exs)[3]>>))

\* the first half of compute_extract_targets with an example filter: the
\* dict temp_dict from 'name\nversion' to the example names of that key
RECURSIVE GroupExamples(_, _)
GroupExamples(exs, temp_dict) ==
    IF exs = <<>> THEN temp_dict
    ELSE LET e == Head(exs)
             temp_key == Join(<<e[1], e[2]>>, <<NewLine>>)
             next == IF DictHas(temp_dict, temp_key)
                     THEN DictPut(temp_dict, temp_key, Append(DictGet(temp_dict, temp_key), e[3]))
                     ELSE DictPut(temp_dict, temp_key, <<e[3]>>)
         IN  GroupExamples(Tail(exs), next)

\* the candidates: <<LibraryInfo, examples or None>> in info_list order
Candidates(exs) ==
    IF ~exs.some
    THEN LET info_list == get_library_info_list
         IN  [i \in DOMAIN info_list |-> <<info_list[i], None>>]
    ELSE LET temp_dict == GroupExamples(exs.v, <<>>)
             kept == SelectSeq(temp_dict,
                        LAMBDA kv : LET parts == Split(kv[1], NewLine)
                                    IN  is_downloaded(parts[1], parts[2]))
         IN  [i \in DOMAIN kept |->
                 LET parts == Split(kept[i][1], NewLine)
                 IN  <<LibraryInfo(parts[1], parts[2]), Some(kept[i][2])>>]

\* VersionLoop with "<= 0" in place of "< 0": of the entries of a name that
\* compare equal, the last one is kept
RECURSIVE VersionLoopKeepingLast(_, _, _, _, _)
VersionLoopKeepingLast(cands, flag, i, max_version, variant_bucket) ==
    IF i > Len(cands) THEN [raised |-> FALSE, bucket |-> variant_bucket]
    ELSE LET info == cands[i][1]
         IN  IF DictHas(variant_bucket, info.name)
             THEN IF flag = LATEST_VERSIONS
                  THEN IF semver_compare(DictGet(max_version, info.name), info.version) <= 0
                       THEN VersionLoopKeepingLast(cands, flag, i + 1,
                                        DictPut(max_version, info.name, info.version),
                                        DictPut(variant_bucket, info.name, <<cands[i]>>))
                       ELSE VersionLoopKeepingLast(cands, flag, i + 1, max_version, variant_bucket)
                  ELSE [raised |-> TRUE, bucket |-> <<>>]
             ELSE VersionLoopKeepingLast(cands, flag, i + 1,
                              DictPut(max_version, info.name, info.version),
                              DictPut(variant_bucket, info.name, <<cands[i]>>))

\* the loop "for i in range(len(info_list))" from index i on
RECURSIVE VersionLoop(_, _, _, _, _)
VersionLoop(cands, flag, i, max_version, variant_bucket) ==
    IF i > Len(cands) THEN [raised |-> FALSE, bucket |-> variant_bucket]
    ELSE LET info == cands[i][1]
         IN  IF DictHas(variant_bucket, info.name)
             THEN IF flag = LATEST_VERSIONS
                  THEN IF semver_compare(DictGet(max_version, info.name), info.version) < 0
                       THEN VersionLoop(cands, flag, i + 1,
                                        DictPut(max_version, info.name, info.version),
                                        DictPut(variant_bucket, info.name, <<cands[i]>>))
                       ELSE VersionLoop(cands, flag, i + 1, max_version, variant_bucket)
                  ELSE [raised |-> TRUE, bucket |-> <<>>]
             ELSE VersionLoop(cands, flag, i + 1,
                              DictPut(max_version, info.name, info.version),
                              DictPut(variant_bucket, info.name, <<cands[i]>>))

\* returns [raised, targets]: raised when ValueError is raised, targets the
\* list of <<LibraryInfo, examples or None>> otherwise
compute_extract_targets(exs, flag) ==
    LET cands == Candidates(exs)
        loop == IF flag # ALL_VERSIONS
                THEN VersionLoop(cands, flag, 1, <<>>, <<>>)
                ELSE [raised |-> FALSE, bucket |-> <<>>]
    IN  IF loop.raised THEN [raised |-> TRUE, targets |-> <<>>]
        ELSE [raised |-> FALSE,
              targets |-> Concat([i \in DOMAIN loop.bucket |-> loop.bucket[i][2]])]


\* the extensions of an example source
SourceExts == { <<"i", "n", "o">>, <<"p", "d", "e">>, <<"c">>, <<"h">>,
                <<"c", "p", "p">>, <<"h", "p", "p">>, <<"c", "x", "x">>,
                <<"h", "x", "x">>, <<"c", "c">> }

\* re.fullmatch(r'[^/]+[.](ino|pde|c|h|cpp|hpp|cxx|hxx|cc)', name)
SourceNameMatch(name) ==
    \E ext \in SourceExts :
        /\ Len(name) > Len(ext) + 1
        /\ EndsWith(name, <<".">> \o ext)

\* m.group(1) of re.fullmatch(r'^[^/]+/examples/((|.+/).+)/[^/]+[.](ino|
\* pde|c|h|cpp|hpp|cxx|hxx|cc)$', f), None when f does not match: the text
\* between <dir>/examples/ and the slash before the file name
SourceGroup1(f) ==
    At(LAMBDA segs :
          IF /\ Len(segs) >= 4
             /\ segs[1] # <<>>
             /\ segs[2] = ExamplesDir
             /\ SourceNameMatch(segs[Len(segs)])
             /\ Join(SubSeq(segs, 3, Len(segs) - 1), <<Slash>>) # <<>>
          THEN Some(Join(SubSeq(segs, 3, Len(segs) - 1), <<Slash>>))
          ELSE None,
       Split(f, Slash))

\* "if examples is not None: if found_example_name not in examples: continue"
FilterKeeps(exs, found_example_name) ==
    ~exs.some \/ found_example_name \in Range(exs.v)

\* the entries of the listing the loop "for f in filenames" acts on
SourcesToExtract(names, exs) ==
    SelectSeq(names, LAMBDA f : At(LAMBDA m : m.some /\ FilterKeeps(exs, m.v),
                                   SourceGroup1(f)))

\* the top-level directory entries of the listing: zipfile.Path(z, p) with
\* name != '', is_dir() (p ends with a slash) and parent.name == ''
RootDirectories(names) ==
    LET tops == SelectSeq(names,
                    LAMBDA p : /\ Len(p) >= 2
                               /\ p[Len(p)] = Slash
                               /\ Find(p, <<Slash>>) = Len(p))
    IN  [i \in DOMAIN tops |-> SubSeq(tops[i], 1, Len(tops[i]) - 1)]

\* archive_root after the loop "for p in z.namelist()": the first one found
ArchiveRoot(names) ==
    IF RootDirectories(names) = <<>> THEN None
    ELSE Some(RootDirectories(names)[1])

\* the length of the longest common prefix of two lists of path components
RECURSIVE CommonPrefix(_, _)
CommonPrefix(a, b) ==
    IF a = <<>> \/ b = <<>> \/ Head(a) # Head(b) THEN 0
    ELSE 1 + CommonPrefix(Tail(a), Tail(b))

DotDot == <<".", ".">>

\* os.path.relpath(path, start) of two relative paths
relpath(path, start) ==
    LET p == Split(path, Slash)
        s == Split(start, Slash)
        n == CommonPrefix(p, s)
    IN  Join([i \in 1..(Len(s) - n) |-> DotDot] \o SubSeq(p, n + 1, Len(p)),
             <<Slash>>)

\* the file name of the archive in a library directory
ZipName == <<"a", ".", "z", "i", "p">>

\* the tuple appended to res for a target whose archive opens and has the
\* root directory archive_root
ResolvedTuple(target, names, archive_root) ==
    LET info == target[1]
        found == SourcesToExtract(names, target[2])
    IN  << [i \in DOMAIN found |->
               relpath(found[i], Join(<<archive_root, ExamplesDir>>, <<Slash>>))],
           info.name,
           info.version,
           Join(<<info.name, info.version, ZipName>>, <<Slash>>),
           archive_root >>

\* the loop "for ex in targets" of get_example_sketches_to_extract from
\* target i on: None as soon as an archive is malformed or has no root
RECURSIVE ResolveLoop(_, _, _)
ResolveLoop(targets, i, res) ==
    IF i > Len(targets) THEN Some(res)
    ELSE LET ar == ArchiveOf(targets[i][1])
         IN  IF ~ar.ok THEN None
             ELSE IF ~ArchiveRoot(namelist(ar)).some THEN None
             ELSE ResolveLoop(targets, i + 1,
                     Append(res, ResolvedTuple(targets[i], namelist(ar),
                                               ArchiveRoot(namelist(ar)).v)))

\* returns [raised, res]: raised when compute_extract_targets raises, res
\* the list of tuples or None otherwise
get_example_sketches_to_extract(exs, flag) ==
    LET computed == compute_extract_targets(exs, flag)
    IN  IF computed.raised THEN [raised |-> TRUE, res |-> None]
        ELSE [raised |-> FALSE, res |-> ResolveLoop(computed.targets, 1, <<>>)]

\* z.read(f)
ReadEntry(ar, f) ==
    LET e == ar.entries[CHOOSE i \in DOMAIN ar.entries : ar.entries[i].name = f]
    IN  [decodable |-> e.decodable, text |-> e.text]

\* extract_examples_from_library that ignores the examples argument
extract_examples_from_library_unfiltered(output_path, info, exs) ==
    LET ar == ArchiveOf(info)
    IN  IF ~ar.ok THEN <<>>
        ELSE LET found == SourcesToExtract(namelist(ar), None)
             IN  [i \in DOMAIN found |->
                     [path |-> Join(<<output_path, info.name, info.version,
                                      SourceGroup1(found[i]).v, Basename(found[i])>>,
                                    <<Slash>>),
                      content |-> ReadEntry(ar, found[i])]]

\* the files extract_examples_from_library writes, in the order it writes
\* them: [path, content]
extract_examples_from_library(output_path, info, exs) ==
    LET ar == ArchiveOf(info)
    IN  IF ~ar.ok THEN <<>>
        ELSE LET found == SourcesToExtract(namelist(ar), exs)
             IN  [i \in DOMAIN found |->
                     [path |-> Join(<<output_path, info.name, info.version,
                                      SourceGroup1(found[i]).v, Basename(found[i])>>,
                                    <<Slash>>),
                      content |-> ReadEntry(ar, found[i])]]

\* "if not path.exists(): path.mkdir(0o755)" on the state st = [raised,
\* out]: raised when mkdir raises OSError
EnsureDir(st, path) ==
    IF st.raised \/ path \in st.out.dirs THEN st
    ELSE IF path \in st.out.blocked THEN [st EXCEPT !.raised = TRUE]
    ELSE [st EXCEPT !.out.dirs = @ \cup {path}]

\* "if not path.exists(): path.mkdir(0o755, parents=True)" for the path
\* base/segs[1]/.../segs[Len(segs)]: the missing directories from segs[i] on
RECURSIVE MakeDirs(_, _, _, _)
MakeDirs(st, base, segs, i) ==
    IF i > Len(segs) THEN st
    ELSE MakeDirs(EnsureDir(st, Join(<<base>> \o SubSeq(segs, 1, i), <<Slash>>)),
                  base, segs, i + 1)

\* the loop "for f in filenames" of extract_examples_from_library on the
\* entries found from the i-th on
RECURSIVE WriteSources(_, _, _, _, _)
WriteSources(st, ar, found, i, target_version_path) ==
    IF i > Len(found) \/ st.raised THEN st
    ELSE LET found_example_name == SourceGroup1(found[i]).v
             made == MakeDirs(st, target_version_path,
                              Split(found_example_name, Slash), 1)
             file == Join(<<target_version_path, found_example_name,
                            Basename(found[i])>>, <<Slash>>)
         IN  IF made.raised THEN made
             ELSE WriteSources([made EXCEPT !.out.files =
                                    DictPut(@, file, ReadEntry(ar, found[i]))],
                               ar, found, i + 1, target_version_path)

\* extract_examples_from_library on the directory tree st.out
MaterializeLibrary(st, output_path, info, exs) ==
    LET target_library_path == Join(<<output_path, info.name>>, <<Slash>>)
        target_version_path == Join(<<target_library_path, info.version>>, <<Slash>>)
        made == EnsureDir(EnsureDir(EnsureDir(st, output_path), target_library_path),
                          target_version_path)
        ar == ArchiveOf(info)
    IN  IF made.raised \/ ~ar.ok THEN made
        ELSE WriteSources(made, ar, SourcesToExtract(namelist(ar), exs), 1,
                          target_version_path)

\* MaterializeLoop that goes on with the next target after an OSError
RECURSIVE MaterializeLoopIsolating(_, _, _, _)
MaterializeLoopIsolating(st, output_path, targets, i) ==
    IF i > Len(targets) THEN st
    ELSE MaterializeLoopIsolating(
            [MaterializeLibrary(st, output_path, targets[i][1], targets[i][2])
                EXCEPT !.raised = FALSE],
            output_path, targets, i + 1)

\* the loop "for (info, ex) in extract_targets" of extract_example_sketches
\* from the i-th target on: an OSError leaves the loop
RECURSIVE MaterializeLoop(_, _, _, _)
MaterializeLoop(st, output_path, targets, i) ==
    IF i > Len(targets) \/ st.raised THEN st
    ELSE MaterializeLoop(MaterializeLibrary(st, output_path, targets[i][1], targets[i][2]),
                         output_path, targets, i + 1)

\* extract_example_sketches on the directory tree tree: [raised, out]
Materialize(tree, output_path, exs, flag) ==
    LET computed == compute_extract_targets(exs, flag)
    IN  IF computed.raised THEN [raised |-> TRUE, out |-> tree]
        ELSE MaterializeLoop([raised |-> FALSE, out |-> tree], output_path,
                             computed.targets, 1)

\* returns [raised, written]: the files written over all the targets
extract_example_sketches(output_path, exs, flag) ==
    LET computed == compute_extract_targets(exs, flag)
    IN  IF computed.raised THEN [raised |-> TRUE, written |-> <<>>]
        ELSE [raised |-> FALSE,
              written |-> Concat([i \in DOMAIN computed.targets |->
                              extract_examples_from_library(output_path,
                                  computed.targets[i][1], computed.targets[i][2])])]

----------------------------------------------------------------------------
(* src/job.py : HuginSession.                                              *)

JobLibraryInfo(name, version, location, archive_root) ==
    [name |-> name, version |-> version, location |-> location,
     archive_root |-> archive_root]

Job(project, example_sketch, job_library_info) ==
    [project |-> project, example_sketch |-> example_sketch,
     job_library_info |-> job_library_info]

set_project_root(hs, project_root) == [hs EXCEPT !.project_root = Some(project_root)]

create_new_job(hs, project_source_path, example_source_path, library_name, library_version, archive_path, archive_root) ==
    [hs EXCEPT !.jobs =
        Append(@, Job(project_source_path, example_source_path,
                      JobLibraryInfo(library_name, library_version, archive_path,
                                     archive_root)))]

HUGIN_JOBS_PATH == <<"j", "o", "b", "s">>

\* [raised, out]: ValueError when the destination exists, OSError when a
\* mkdir fails
secure_directories(tree, output_path) ==
    IF output_path \in tree.dirs THEN [raised |-> TRUE, out |-> tree]
    ELSE EnsureDir(EnsureDir([raised |-> FALSE, out |-> tree], output_path),
                   Join(<<output_path, HUGIN_JOBS_PATH>>, <<Slash>>))

\* HuginSession.write: [raised, error, out].  After secure_directories the
\* session file is opened as open(output_path.joinpath('session.toml', 'w')),
\* that is the path <output_path>/session.toml/w for reading, which does not
\* exist in the directory just created.
write(hs, tree, output_path) ==
    IF ~hs.project_root.some
    THEN [raised |-> TRUE, error |-> "ValueError: project root", out |-> tree]
    ELSE IF ~hs.session.some
    THEN [raised |-> TRUE, error |-> "ValueError: no session", out |-> tree]
    ELSE LET secured == secure_directories(tree, output_path)
         IN  IF secured.raised
             THEN [raised |-> TRUE, error |-> "secure_directories", out |-> secured.out]
             ELSE [raised |-> TRUE, error |-> "FileNotFoundError", out |-> secured.out]

----------------------------------------------------------------------------
(* src/result.py : CodeSlice.                                              *)

\* s[from:to] for 0 <= from and 0 <= to
Slice(s, from, to) == SubSeq(s, from + 1, IF to < Len(s) THEN to ELSE Len(s))

\* CodeSlice(start, end).get_code_from(code_string): [raised, value],
\* raised when lines[0] raises IndexError
get_code_from(start, end, code_string) ==
    LET all == splitlines(code_string)
        lines == Slice(all, start.lines - 1, end.lines - 1 + 1)
        nl == <<NewLine>>
    IN  IF lines = <<>> THEN [raised |-> TRUE, value |-> <<>>]
        ELSE [raised |-> FALSE,
              value |-> Slice(lines[1], start.columns - 1, Len(lines[1])) \o nl
                        \o (IF Len(lines) > 2
                            THEN Join(SubSeq(lines, 2, Len(lines) - 1), nl) \o nl
                            ELSE <<>>)
                        \o Slice(lines[Len(lines)], 0, end.columns - 1 + 1) \o nl]

----------------------------------------------------------------------------
(* The values the inputs are drawn from.                                   *)

Lt == "<"
Gt == ">"
Quote == "\""

a_h == <<"a", ".", "h">>
b_hpp == <<"b", ".", "h", "p", "p">>
r_h == <<"r", ".", "h">>
o_h == <<"o", ".", "h">>

\* the pieces a scanned source text is made of
Pieces ==
    { IncludeKeyword,
      <<Lt>> \o a_h \o <<Gt>>,
      <<Quote>> \o b_hpp \o <<Quote>>,
      <<Lt>> \o a_h,
      <<Quote>>,
      <<"/", "/", " ">>,
      <<" ">>,
      <<"\n">> }

Sources == {Concat(ps) : ps \in SeqsUpTo(Pieces, MaxPieces)}

\* '/'.join(segs)
P(segs) == Join(segs, <<Slash>>)

L == <<"L">>
Blink == <<"B", "l">>
Fade == <<"F", "a">>
Grp == <<"g">>
Ino == <<".", "i", "n", "o">>
Pde == <<".", "p", "d", "e">>

SrcA == P(<<L, SrcDir, a_h>>)
SrcB == P(<<L, SrcDir, b_hpp>>)
RootA == P(<<L, a_h>>)
RootR == P(<<L, r_h>>)
BlinkIno == P(<<L, ExamplesDir, Blink, Blink \o Ino>>)
FadePde == P(<<L, ExamplesDir, Grp, Fade, Fade \o Pde>>)

\* the entries an archive listing is made of
EntryPool ==
    { SrcA, SrcB, RootA, RootR,
      P(<<L, SrcDir, Grp, a_h>>),              \* a header below src/<dir>/
      P(<<SrcDir, r_h>>),                      \* a header in a root named src
      P(<<L, SrcDir, <<".", "h">>>>),          \* src/.h : no name before the dot
      P(<<L, SrcDir, <<"a", ".", "c">>>>),     \* not a header
      BlinkIno, FadePde,
      P(<<L, ExamplesDir, Blink, Fade \o Ino>>),
      P(<<L, ExamplesDir, Blink, Fade, Blink, Fade \o Ino>>) }

Listings == SeqsUpTo(EntryPool, MaxEntries)

\* an archive that opens and lists names
ListingArchive(names) ==
    [ok |-> TRUE,
     entries |-> [i \in DOMAIN names |-> [name |-> names[i], decodable |-> TRUE, text |-> <<>>]]]

\* library identities: name and version
X == <<"X">>
Y == <<"Y">>
V100 == <<"1", ".", "0", ".", "0">>
V120 == <<"1", ".", "2", ".", "0">>
V1100 == <<"1", ".", "1", "0", ".", "0">>
V120b == <<"1", ".", "2", ".", "0", "+", "b">>
V200 == <<"2", ".", "0", ".", "0">>

Identities == {<<X, V100>>, <<X, V120>>, <<X, V1100>>, <<X, V120b>>, <<Y, V200>>}

AnalysisIdentities == {<<X, V100>>, <<X, V120>>, <<Y, V200>>}

LibEntry(id) == [name |-> id[1], version |-> id[2]]

ExampleNames == {Blink, P(<<Grp, Fade>>)}

HeaderNames == {a_h, r_h}

IncludeLine(h) == IncludeKeyword \o <<Lt>> \o h \o <<Gt>> \o <<"\n">>

\* a sketch that includes a header of the library, one found only in the
\* root directory and one of some other library
SketchText == IncludeLine(a_h) \o IncludeLine(r_h) \o IncludeLine(o_h)

File(name) == [name |-> name, decodable |-> TRUE, text |-> <<>>]
Sketch(name, decodable) ==
    [name |-> name, decodable |-> decodable,
     text |-> IF decodable THEN SketchText ELSE <<>>]

MalformedArchive == [ok |-> FALSE, entries |-> <<>>]
EmptyArchive == [ok |-> TRUE, entries |-> <<>>]

\* an archive that opens, with the entries es
Archive(es) == [ok |-> TRUE, entries |-> es]

\* the archives of the analysed libraries: malformed; without entries;
\* without headers and with a sketch that decodes or does not; with a src
\* and a root header and a sketch that decodes, or an undecodable sketch
\* before one that decodes; with a root header only
ArchivePool ==
    { MalformedArchive,
      EmptyArchive,
      Archive(<<Sketch(BlinkIno, TRUE)>>),
      Archive(<<Sketch(BlinkIno, FALSE)>>),
      Archive(<<File(SrcA), File(RootR), Sketch(BlinkIno, TRUE)>>),
      Archive(<<File(SrcA), File(RootR), Sketch(BlinkIno, FALSE), Sketch(FadePde, TRUE)>>),
      Archive(<<File(RootR), Sketch(BlinkIno, TRUE)>>) }

\* a library directory: downloaded with an archive, or a failed download
Downloaded(ar) == [meta |-> "ok", archive |-> ar]
FailedDownload == [meta |-> "failed", archive |-> EmptyArchive]
NoDirectory == [meta |-> "absent", archive |-> EmptyArchive]

InjectiveSeqs(S, n) ==
    {q \in SeqsUpTo(S, n) : \A i, j \in DOMAIN q : q[i] = q[j] => i = j}

NoCall == [op |-> "none", value |-> <<>>]

----------------------------------------------------------------------------
(* Initial values of the parts of the state a specification does not use.  *)

NoSource == source = <<>>
NoListing == filenames = <<>>
NoWorld == library_index = <<>> /\ storage = <<>>
NoTargetArgs == examples = None /\ version_flag = ALL_VERSIONS
\* no file in the database root, no command run
NoFiles == [index |-> None, headers |-> None, features |-> None]
FreshRun == [n |-> 0, changed |-> FALSE, crashed |-> FALSE, before |-> NoFiles,
             saves |-> <<>>]
\* nothing below output_path: the directories, the files with their
\* content, and the paths at which mkdir raises
NoOutput == [dirs |-> {}, files |-> <<>>, blocked |-> {}]
\* HuginSession.__init__
NoSession == [session |-> None, jobs |-> <<>>, project_root |-> None]
NoRun ==
    /\ disk = NoFiles /\ run = FreshRun
    /\ out = NoOutput /\ hugin_session = NoSession
NoHistory == [calls |-> 0, headers |-> {}, features |-> <<>>]

\* Database.__init__
EmptyDatabase == header_dict = <<>> /\ feature_data = <<>> /\ added = NoHistory

\* Analyzer.__init__
FreshAnalyzer ==
    /\ n_libraries = 0
    /\ n_failed_libraries = 0
    /\ n_example_sketches = 0
    /\ n_failed_example_sketches = 0
    /\ pc = "idle"
    /\ idx = 0
    /\ passes = 0
    /\ pass_log = <<>>

----------------------------------------------------------------------------
(* SpecScan: the include scanner applied to a source text.                 *)

InitScan ==
    /\ source \in Sources
    /\ NoListing /\ NoWorld /\ NoTargetArgs /\ EmptyDatabase /\ FreshAnalyzer
    /\ NoRun
    /\ ret = NoCall

Scan ==
    /\ ret' = [op |-> "get_included_headers_from_source_code",
               value |-> get_included_headers_from_source_code(source)]
    /\ UNCHANGED <<scanVars, locateVars, worldVars, targetVars, dbVars,
                   counterVars, passVars, added>>

NextScan == Scan

SpecScan == InitScan /\ [][NextScan]_vars

----------------------------------------------------------------------------
(* SpecLocate: the header and example locators applied to the listing of   *)
(* an archive that opens.                                                  *)

InitLocate ==
    /\ filenames \in Listings
    /\ NoSource /\ NoWorld /\ NoTargetArgs /\ EmptyDatabase /\ FreshAnalyzer
    /\ NoRun
    /\ ret = NoCall

LocateHeaders ==
    /\ ret' = [op |-> "get_headers_for_library",
               value |-> get_headers_for_library(ListingArchive(filenames))]
    /\ UNCHANGED <<scanVars, locateVars, worldVars, targetVars, dbVars,
                   counterVars, passVars, added>>

LocateSketches ==
    /\ ret' = [op |-> "get_example_sketches",
               value |-> get_example_sketches(filenames)]
    /\ UNCHANGED <<scanVars, locateVars, worldVars, targetVars, dbVars,
                   counterVars, passVars, added>>

NextLocate == LocateHeaders \/ LocateSketches

SpecLocate == InitLocate /\ [][NextLocate]_vars

----------------------------------------------------------------------------
(* SpecTargets: compute_extract_targets on a database whose library index  *)
(* and library directories are given, without or with an example filter.   *)

\* every library downloaded, but for at most one whose download failed
Storages ==
    {[id \in Identities |-> Downloaded(EmptyArchive)]}
        \cup {[id \in Identities |-> IF id = bad THEN FailedDownload
                                     ELSE Downloaded(EmptyArchive)] : bad \in Identities}

FilterTriples == {<<id[1], id[2], e>> : id \in Identities, e \in ExampleNames}

InitTargets ==
    /\ storage \in Storages
    /\ version_flag \in {ALL_VERSIONS, LATEST_VERSIONS, 2}
    /\ \/ /\ examples = None
          /\ \E ids \in SeqsUpTo(Identities, MaxLibs) :
                library_index = [i \in DOMAIN ids |-> LibEntry(ids[i])]
       \/ /\ examples \in {Some(f) : f \in SeqsUpTo(FilterTriples, MaxFilter)}
          /\ library_index = <<>>
    /\ NoSource /\ NoListing /\ EmptyDatabase /\ FreshAnalyzer
    /\ NoRun
    /\ ret = NoCall

ComputeExtractTargets ==
    /\ ret' = [op |-> "compute_extract_targets",
               value |-> compute_extract_targets(examples, version_flag)]
    /\ UNCHANGED <<scanVars, locateVars, worldVars, targetVars, dbVars,
                   counterVars, passVars, added>>

NextTargets == ComputeExtractTargets

SpecTargets == InitTargets /\ [][NextTargets]_vars

----------------------------------------------------------------------------
(* SpecDb: the two indices of a Database under its add_* and search calls. *)

QueryOrder == <<a_h, r_h, o_h>>
Queries == {SelectSeq(QueryOrder, LAMBDA h : h \in S) : S \in SUBSET Range(QueryOrder)}

InitDb ==
    /\ EmptyDatabase
    /\ NoSource /\ NoListing /\ NoWorld /\ NoTargetArgs /\ FreshAnalyzer
    /\ NoRun
    /\ ret = NoCall

AddHeaderDictionaryEntry ==
    /\ added.calls < MaxAdds
    /\ \E id \in AnalysisIdentities, headers \in SeqsUpTo(HeaderNames, 2) :
          /\ header_dict' = add_header_dictionary_entry(header_dict, LibEntry(id), headers)
          /\ added' = [added EXCEPT !.calls = @ + 1,
                                    !.headers = @ \cup {<<id[1], id[2], headers[i]>> :
                                                          i \in DOMAIN headers}]
    /\ ret' = NoCall
    /\ UNCHANGED <<scanVars, locateVars, worldVars, targetVars, feature_data,
                   counterVars, passVars>>

AddFeatureDatabaseEntry ==
    /\ added.calls < MaxAdds
    /\ \E id \in AnalysisIdentities, e \in ExampleNames, hs \in SUBSET HeaderNames :
          \E headers \in Orderings(hs) :
              LET key == <<id[1], id[2], e>>
              IN  /\ feature_data' =
                        add_feature_database_entry(feature_data, LibEntry(id), e, headers)
                  /\ added' = [added EXCEPT
                        !.calls = @ + 1,
                        !.features = [k \in DOMAIN @ \cup {key} |->
                                         IF k = key THEN hs ELSE @[k]]]
    /\ ret' = NoCall
    /\ UNCHANGED <<scanVars, locateVars, worldVars, targetVars, header_dict,
                   counterVars, passVars>>

Search ==
    /\ \E h \in Range(QueryOrder) :
          \E res \in search(header_dict, h) :
              ret' = [op |-> "search", arg |-> h, value |-> res]
    /\ UNCHANGED <<scanVars, locateVars, worldVars, targetVars, dbVars,
                   counterVars, passVars, added>>

SearchExampleSketches ==
    /\ \E headers \in Queries :
          ret' = [op |-> "search_example_sketches", arg |-> headers,
                  value |-> search_example_sketches(feature_data, headers)]
    /\ UNCHANGED <<scanVars, locateVars, worldVars, targetVars, dbVars,
                   counterVars, passVars, added>>

SerializeHeaderDictionary ==
    /\ \E res \in serialize_header_dictionary(header_dict) :
          ret' = [op |-> "serialize_header_dictionary", value |-> res]
    /\ UNCHANGED <<scanVars, locateVars, worldVars, targetVars, dbVars,
                   counterVars, passVars, added>>

Serialize ==
    /\ ret' = [op |-> "serialize", value |-> serialize(feature_data)]
    /\ UNCHANGED <<scanVars, locateVars, worldVars, targetVars, dbVars,
                   counterVars, passVars, added>>

NextDb ==
    \/ AddHeaderDictionaryEntry
    \/ AddFeatureDatabaseEntry
    \/ Search
    \/ SearchExampleSketches
    \/ SerializeHeaderDictionary
    \/ Serialize

SpecDb == InitDb /\ [][NextDb]_vars

----------------------------------------------------------------------------
(* SpecReload: a Database whose indices are added to, saved to the files   *)
(* of its root directory and reloaded from them with load(force=True).     *)

InitReload ==
    /\ EmptyDatabase
    /\ library_index = <<>> /\ storage = <<>>
    /\ disk = [NoFiles EXCEPT !.index = Some(library_index)]
    /\ run = FreshRun /\ out = NoOutput /\ hugin_session = NoSession
    /\ NoSource /\ NoListing /\ NoTargetArgs /\ FreshAnalyzer
    /\ ret = NoCall

\* Database.save
Save ==
    /\ \E data_dict \in serialize_header_dictionary(header_dict) :
          disk' = [index |-> Some(library_index),
                   headers |-> Some(data_dict),
                   features |-> Some(serialize(feature_data))]
    /\ ret' = [op |-> "save", value |-> <<>>]
    /\ UNCHANGED <<scanVars, locateVars, targetVars, out, hugin_session, library_index, storage, run,
                   dbVars, counterVars, passVars, added>>

\* Database.load(force=True): read_header_dictionary assigns
\* self.header_dict, read_feature_database deserializes into the
\* FeatureDatabase the Database holds; a file that does not exist is not read
LoadForce ==
    /\ header_dict' = IF disk.headers.some
                      THEN deserialize_header_dictionary(disk.headers.v)
                      ELSE header_dict
    /\ feature_data' = IF disk.features.some
                       THEN deserialize(feature_data, disk.features.v)
                       ELSE feature_data
    /\ ret' = [op |-> "load", value |-> <<>>,
               before |-> [header_dict |-> header_dict, feature_data |-> feature_data]]
    /\ UNCHANGED <<scanVars, locateVars, targetVars, worldVars, counterVars, passVars,
                   added>>

NextReload ==
    \/ AddHeaderDictionaryEntry
    \/ AddFeatureDatabaseEntry
    \/ Save
    \/ LoadForce

SpecReload == InitReload /\ [][NextReload]_vars

----------------------------------------------------------------------------
(* Spec: Analyzer.find_headers over the locally present libraries.  One    *)
(* step starts a pass, one step is one iteration of the loop over          *)
(* get_library_info_list(), one step ends the pass.                        *)

\* library directories for the libraries of the index: an archive of the
\* pool, or a failed download
Worlds(ids) ==
    {w \in [AnalysisIdentities -> {NoDirectory, FailedDownload}
                                      \cup {Downloaded(ar) : ar \in ArchivePool}] :
        \A id \in AnalysisIdentities : (w[id] = NoDirectory) <=> (id \notin Range(ids))}

Init ==
    /\ \E ids \in InjectiveSeqs(AnalysisIdentities, MaxIndex) :
          /\ library_index = [i \in DOMAIN ids |-> LibEntry(ids[i])]
          /\ storage \in Worlds(ids)
    /\ NoSource /\ NoListing /\ NoTargetArgs /\ EmptyDatabase /\ FreshAnalyzer
    /\ NoRun
    /\ ret = NoCall

\* find_headers up to the loop
FindHeadersStart ==
    /\ pc \in {"idle", "done"}
    /\ passes < MaxPasses
    /\ n_libraries' = Len(get_library_info_list)
    /\ n_example_sketches' = 0
    /\ n_failed_libraries' = 0
    /\ pc' = "loop"
    /\ idx' = 0
    /\ passes' = passes + 1
    /\ pass_log' = <<>>
    /\ ret' = NoCall
    /\ UNCHANGED <<scanVars, locateVars, worldVars, targetVars, dbVars,
                   n_failed_example_sketches, added>>

\* the feature databases the loop over example_headers can leave from its
\* i-th example on: list(feature_headers) lists the set sets[i] in any order
RECURSIVE AddFeatures(_, _, _, _, _)
AddFeatures(libraries, lib_info, res, sets, i) ==
    IF i > Len(res) THEN {libraries}
    ELSE UNION {AddFeatures(libs, lib_info, res, sets, i + 1) :
                  libs \in {add_feature_database_entry(libraries, lib_info, res[i][1], fp) :
                               fp \in Orderings(sets[i])}}

\* FeatureHeaders without the intersection: every header the sketch includes
FeatureHeadersOfSketchOnly(headers, example_headers) == Range(example_headers)

\* set(headers) & set(example_headers)
FeatureHeaders(headers, example_headers) == Range(headers) \cap Range(example_headers)

\* len(headers) == 0 and len(example_headers) != 0 after the loop, where
\* example_headers is bound to the headers of the last example if there is one
NoHeaderWarning(headers, res) ==
    /\ Len(headers) = 0
    /\ Len(IF res = <<>> THEN res ELSE res[Len(res)][2]) # 0

\* LibraryFailures without the count of a library whose archive is malformed
LibraryFailuresOfSketchesOnly(headers, is_ok) ==
    IF ~headers.some THEN 0
    ELSE IF ~is_ok THEN 1 ELSE 0

\* LibraryFailures without the count of a library one of whose sketches
\* cannot be decoded
LibraryFailuresOfArchiveOnly(headers, is_ok) ==
    IF ~headers.some THEN 1 ELSE 0

\* what one iteration adds to n_failed_libraries: headers is the result of
\* get_headers_for_library, is_ok that of get_headers_in_examples
LibraryFailures(headers, is_ok) ==
    IF ~headers.some THEN 1
    ELSE IF ~is_ok THEN 1 ELSE 0

\* one iteration of "for lib_info in self.database.get_library_info_list()"
ProcessLibrary ==
    /\ pc = "loop"
    /\ idx < Len(get_library_info_list)
    /\ \E lib_info \in {get_library_info_list[idx + 1]} :
       \E headers \in {get_headers_for_library(ArchiveOf(lib_info))} :
          IF ~headers.some
          THEN /\ n_failed_libraries' = n_failed_libraries + LibraryFailures(headers, TRUE)
               /\ pass_log' = Append(pass_log,
                     [lib |-> lib_info, headers |-> headers, features |-> <<>>,
                      warned |-> FALSE])
               /\ UNCHANGED <<dbVars, n_example_sketches, n_failed_example_sketches>>
          ELSE \E ex \in {get_headers_in_examples(ArchiveOf(lib_info))} :
               \E sets \in {[i \in DOMAIN ex.res |-> FeatureHeaders(headers.v, ex.res[i][2])]} :
                   /\ header_dict' = add_header_dictionary_entry(header_dict, lib_info, headers.v)
                   /\ n_example_sketches' = n_example_sketches + ex.sketches
                   /\ n_failed_example_sketches' = n_failed_example_sketches + ex.failed
                   /\ n_failed_libraries' =
                         n_failed_libraries + LibraryFailures(headers, ex.is_ok)
                   /\ feature_data' \in AddFeatures(feature_data, lib_info, ex.res, sets, 1)
                   /\ pass_log' = Append(pass_log,
                         [lib |-> lib_info, headers |-> headers,
                          features |-> [i \in DOMAIN ex.res |-> <<ex.res[i][1], sets[i]>>],
                          warned |-> NoHeaderWarning(headers.v, ex.res)])
    /\ idx' = idx + 1
    /\ ret' = NoCall
    /\ UNCHANGED <<scanVars, locateVars, worldVars, targetVars, n_libraries,
                   pc, passes, added>>

\* find_headers after the loop: the summary is printed and the call returns
FindHeadersFinish ==
    /\ pc = "loop"
    /\ idx = Len(get_library_info_list)
    /\ pc' = "done"
    /\ ret' = NoCall
    /\ UNCHANGED <<scanVars, locateVars, worldVars, targetVars, dbVars,
                   counterVars, idx, passes, pass_log, added>>

Next ==
    \/ FindHeadersStart
    \/ ProcessLibrary
    \/ FindHeadersFinish

Spec == Init /\ [][Next]_vars

\* find_headers is sequential code: once started, the loop and the return
\* are taken
FairSpec == Spec /\ WF_vars(ProcessLibrary) /\ WF_vars(FindHeadersFinish)

----------------------------------------------------------------------------
(* SpecRun: runs of the find_headers command (main.do_find_headers): each  *)
(* run is a new process that loads the database from its files, makes one  *)
(* analysis pass and saves the database, one file after the other.  The    *)
(* process may stop during the save, and between two runs the archive of   *)
(* a library may be replaced.                                              *)

InitRun ==
    /\ \E ids \in InjectiveSeqs(AnalysisIdentities, MaxIndex) :
          /\ library_index = [i \in DOMAIN ids |-> LibEntry(ids[i])]
          /\ storage \in Worlds(ids)
    /\ disk = [NoFiles EXCEPT !.index = Some(library_index)]
    /\ run = [FreshRun EXCEPT !.before = disk]
    /\ out = NoOutput /\ hugin_session = NoSession
    /\ NoSource /\ NoListing /\ NoTargetArgs /\ EmptyDatabase
    /\ n_libraries = 0
    /\ n_failed_libraries = 0
    /\ n_example_sketches = 0
    /\ n_failed_example_sketches = 0
    /\ pc = "exit"
    /\ idx = 0
    /\ passes = 0
    /\ pass_log = <<>>
    /\ ret = NoCall

\* Database(conf.database_root); db.load(); Analyzer(db, conf.temp_dir)
Load ==
    /\ pc = "exit"
    /\ run.n < MaxRuns
    /\ header_dict' = IF disk.headers.some
                      THEN deserialize_header_dictionary(disk.headers.v) ELSE <<>>
    /\ feature_data' = IF disk.features.some
                       THEN deserialize(<<>>, disk.features.v) ELSE <<>>
    /\ n_libraries' = 0
    /\ n_failed_libraries' = 0
    /\ n_example_sketches' = 0
    /\ n_failed_example_sketches' = 0
    /\ pc' = "idle"
    /\ idx' = 0
    /\ passes' = 0
    /\ pass_log' = <<>>
    /\ run' = [run EXCEPT !.n = @ + 1, !.crashed = FALSE]
    /\ ret' = NoCall
    /\ UNCHANGED <<scanVars, locateVars, targetVars, out, hugin_session, library_index, storage, disk, added>>

\* an.find_headers(), called once by the command
RunFindHeadersStart == pc = "idle" /\ FindHeadersStart

\* Database.save: write_library_index
WriteLibraryIndex ==
    /\ pc = "done"
    /\ disk' = [disk EXCEPT !.index = Some(library_index)]
    /\ run' = [run EXCEPT !.before = disk]
    /\ pc' = "index_written"
    /\ ret' = NoCall
    /\ UNCHANGED <<scanVars, locateVars, targetVars, out, hugin_session, library_index, storage, dbVars,
                   counterVars, idx, passes, pass_log, added>>

\* Database.save: write_header_dictionary
WriteHeaderDictionary ==
    /\ pc = "index_written"
    /\ \E data_dict \in serialize_header_dictionary(header_dict) :
          disk' = [disk EXCEPT !.headers = Some(data_dict)]
    /\ pc' = "headers_written"
    /\ ret' = NoCall
    /\ UNCHANGED <<scanVars, locateVars, targetVars, out, hugin_session, library_index, storage, run, dbVars,
                   counterVars, idx, passes, pass_log, added>>

\* Database.save: write_feature_database, and the end of the command
WriteFeatureDatabase ==
    /\ pc = "headers_written"
    /\ disk' = [disk EXCEPT !.features = Some(serialize(feature_data))]
    /\ run' = [run EXCEPT !.saves = Append(@, [disk |-> disk', unchanged |-> ~run.changed]),
                          !.changed = FALSE]
    /\ pc' = "exit"
    /\ ret' = NoCall
    /\ UNCHANGED <<scanVars, locateVars, targetVars, out, hugin_session, library_index, storage, dbVars,
                   counterVars, idx, passes, pass_log, added>>

\* the process stops during save(): an I/O error of one of the writes, or
\* the process is killed
StopDuringSave ==
    /\ pc \in {"index_written", "headers_written"}
    /\ pc' = "exit"
    /\ run' = [run EXCEPT !.crashed = TRUE]
    /\ ret' = NoCall
    /\ UNCHANGED <<scanVars, locateVars, targetVars, out, hugin_session, library_index, storage, disk, dbVars,
                   counterVars, idx, passes, pass_log, added>>

\* between two runs the archive of one downloaded library is replaced
ReplaceArchive ==
    /\ pc = "exit"
    /\ run.n >= 1
    /\ ~run.changed
    /\ \E id \in DOMAIN storage, ar \in ArchivePool :
          /\ storage[id].meta = "ok"
          /\ storage[id].archive # ar
          /\ storage' = [storage EXCEPT ![id] = Downloaded(ar)]
    /\ run' = [run EXCEPT !.changed = TRUE]
    /\ ret' = NoCall
    /\ UNCHANGED <<scanVars, locateVars, targetVars, out, hugin_session, library_index, disk, dbVars,
                   counterVars, passVars, added>>

NextRun ==
    \/ Load
    \/ RunFindHeadersStart
    \/ ProcessLibrary
    \/ FindHeadersFinish
    \/ WriteLibraryIndex
    \/ WriteHeaderDictionary
    \/ WriteFeatureDatabase
    \/ StopDuringSave
    \/ ReplaceArchive

SpecRun == InitRun /\ [][NextRun]_vars

----------------------------------------------------------------------------
(* SpecFetch: runs of the find_headers command and of the fetch command    *)
(* (main.do_fetch) on the same database root.                              *)

\* the fetch command: Database(conf.database_root) without load(), the
\* downloaded index assigned to db.library_index, db.download(), db.save().
\* The package list and the archives are the ones already present.
Fetch ==
    /\ pc = "exit"
    /\ run.n >= 1
    /\ header_dict' = <<>>
    /\ feature_data' = <<>>
    /\ \E data_dict \in serialize_header_dictionary(header_dict') :
          disk' = [index |-> Some(library_index),
                   headers |-> Some(data_dict),
                   features |-> Some(serialize(feature_data'))]
    /\ ret' = [op |-> "do_fetch", value |-> 0, before |-> disk]
    /\ UNCHANGED <<scanVars, locateVars, targetVars, out, hugin_session, library_index, storage, run,
                   counterVars, passVars, added>>

NextFetch ==
    \/ NextRun
    \/ Fetch

SpecFetch == InitRun /\ [][NextFetch]_vars

----------------------------------------------------------------------------
(* SpecExtract: get_example_sketches_to_extract and                        *)
(* extract_example_sketches on a database of downloaded libraries.         *)

M == <<"M">>
BlinkH == P(<<L, ExamplesDir, Blink, <<"x", ".", "h">>>>)
BlinkNotes == P(<<L, ExamplesDir, Blink, <<"n", ".", "t", "x", "t">>>>)
TopIno == P(<<L, ExamplesDir, <<"t", ".", "i", "n", "o">>>>)
OtherBlink == P(<<M, ExamplesDir, Blink, Blink \o Ino>>)

\* a directory entry and a file entry with its text
Dir(name) == [name |-> name \o <<Slash>>, decodable |-> TRUE, text |-> <<>>]
Entry(name, text) == [name |-> name, decodable |-> TRUE, text |-> text]

\* an archive without a directory entry
UnrootedArchive == Archive(<<Sketch(BlinkIno, TRUE)>>)

\* an archive with one root directory: a header, the sources of two
\* examples, a text file, a sketch directly in examples/
RootedArchive ==
    Archive(<<Dir(L), File(SrcA), Sketch(BlinkIno, TRUE), Entry(BlinkH, <<"1">>),
              Entry(BlinkNotes, <<"2">>), Entry(TopIno, <<"3">>),
              Sketch(FadePde, FALSE)>>)

\* an archive with two top-level directories
TwoRootsArchive ==
    Archive(<<Dir(L), Dir(M), Entry(OtherBlink, <<"4">>), Sketch(BlinkIno, TRUE)>>)

ExtractPool == {MalformedArchive, UnrootedArchive, RootedArchive, TwoRootsArchive}

ExtractWorlds(ids) ==
    {w \in [AnalysisIdentities -> {NoDirectory} \cup {Downloaded(ar) : ar \in ExtractPool}] :
        \A id \in AnalysisIdentities : (w[id] = NoDirectory) <=> (id \notin Range(ids))}

ExtractFilterTriples == {<<id[1], id[2], e>> : id \in {<<X, V100>>, <<Y, V200>>},
                                               e \in ExampleNames}

\* the output_path argument
Out == <<"o">>

InitExtract ==
    /\ \E ids \in InjectiveSeqs(AnalysisIdentities, MaxIndex) :
          /\ library_index = [i \in DOMAIN ids |-> LibEntry(ids[i])]
          /\ storage \in ExtractWorlds(ids)
    /\ version_flag \in {ALL_VERSIONS, LATEST_VERSIONS}
    /\ examples \in {None} \cup {Some(f) : f \in SeqsUpTo(ExtractFilterTriples, MaxNarrow)}
    /\ NoSource /\ NoListing /\ EmptyDatabase /\ FreshAnalyzer
    /\ NoRun
    /\ ret = NoCall

GetExampleSketchesToExtract ==
    /\ ret' = [op |-> "get_example_sketches_to_extract",
               value |-> get_example_sketches_to_extract(examples, version_flag)]
    /\ UNCHANGED <<scanVars, locateVars, worldVars, targetVars, dbVars,
                   counterVars, passVars, added>>

ExtractExampleSketches ==
    /\ ret' = [op |-> "extract_example_sketches",
               value |-> extract_example_sketches(Out, examples, version_flag)]
    /\ UNCHANGED <<scanVars, locateVars, worldVars, targetVars, dbVars,
                   counterVars, passVars, added>>

NextExtract ==
    \/ GetExampleSketchesToExtract
    \/ ExtractExampleSketches

SpecExtract == InitExtract /\ [][NextExtract]_vars

----------------------------------------------------------------------------
(* SpecMaterialize: extract_example_sketches on an output directory that   *)
(* may hold directories and files of an earlier extraction, and in which   *)
(* the creation of one directory may fail.                                 *)

OldFile == P(<<Out, X, V100, <<"o", "l", "d">>>>)

\* the output directory before the call: absent; present and empty; with
\* the directories and a file of an earlier extraction of X 1.0.0
OutputTrees ==
    { NoOutput,
      [NoOutput EXCEPT !.dirs = {Out}],
      [NoOutput EXCEPT !.dirs = {Out, P(<<Out, X>>), P(<<Out, X, V100>>)},
                       !.files = <<<<OldFile, [decodable |-> TRUE, text |-> <<"0">>]>>>>] }

\* the paths at which mkdir may raise: the directory of a library, of a
\* version, of an example
Unwritable ==
    { P(<<Out, X>>), P(<<Out, Y>>), P(<<Out, Y, V200>>), P(<<Out, X, V100, Grp>>) }

MaterializePool == {MalformedArchive, RootedArchive}

MaterializeWorlds(ids) ==
    {w \in [AnalysisIdentities -> {NoDirectory} \cup {Downloaded(ar) : ar \in MaterializePool}] :
        \A id \in AnalysisIdentities : (w[id] = NoDirectory) <=> (id \notin Range(ids))}

InitMaterialize ==
    /\ \E ids \in InjectiveSeqs(AnalysisIdentities, MaxIndex) :
          /\ library_index = [i \in DOMAIN ids |-> LibEntry(ids[i])]
          /\ storage \in MaterializeWorlds(ids)
    /\ version_flag = LATEST_VERSIONS
    /\ examples = None
    /\ \E tree \in OutputTrees :
          out \in {tree} \cup {[tree EXCEPT !.blocked = {p}] : p \in Unwritable \ tree.dirs}
    /\ disk = NoFiles /\ run = FreshRun /\ hugin_session = NoSession
    /\ NoSource /\ NoListing /\ EmptyDatabase /\ FreshAnalyzer
    /\ ret = NoCall

\* db.extract_example_sketches(output_path, version_flag=LATEST_VERSIONS),
\* called once
MaterializeExampleSketches ==
    /\ ret = NoCall
    /\ \E done \in {Materialize(out, Out, examples, version_flag)} :
          /\ out' = done.out
          /\ ret' = [op |-> "extract_example_sketches",
                     value |-> [raised |-> done.raised, before |-> out]]
    /\ UNCHANGED <<scanVars, locateVars, library_index, storage, disk, run, targetVars,
                   hugin_session, dbVars, counterVars, passVars, added>>

NextMaterialize == MaterializeExampleSketches

SpecMaterialize == InitMaterialize /\ [][NextMaterialize]_vars

----------------------------------------------------------------------------
(* SpecDiagnostic: analysis passes over libraries without headers, whose   *)
(* sketches include headers or include none.                               *)

\* a sketch without include directive
PlainText == <<"i", "n", "t", " ", "x", ";", "\n">>

\* without entries; without headers and with a sketch that includes
\* nothing, with such a sketch after or before one that includes headers,
\* with a sketch that cannot be decoded; with a header and a sketch that
\* includes nothing
DiagnosticPool ==
    { EmptyArchive,
      Archive(<<Entry(BlinkIno, PlainText)>>),
      Archive(<<Sketch(BlinkIno, TRUE), Entry(FadePde, PlainText)>>),
      Archive(<<Entry(BlinkIno, PlainText), Sketch(FadePde, TRUE)>>),
      Archive(<<Sketch(BlinkIno, FALSE)>>),
      Archive(<<File(RootR), Entry(BlinkIno, PlainText)>>) }

DiagnosticWorlds(ids) ==
    {w \in [AnalysisIdentities -> {NoDirectory} \cup {Downloaded(ar) : ar \in DiagnosticPool}] :
        \A id \in AnalysisIdentities : (w[id] = NoDirectory) <=> (id \notin Range(ids))}

InitDiagnostic ==
    /\ \E ids \in InjectiveSeqs(AnalysisIdentities, MaxIndex) :
          /\ library_index = [i \in DOMAIN ids |-> LibEntry(ids[i])]
          /\ storage \in DiagnosticWorlds(ids)
    /\ NoSource /\ NoListing /\ NoTargetArgs /\ EmptyDatabase /\ FreshAnalyzer
    /\ NoRun
    /\ ret = NoCall

SpecDiagnostic == InitDiagnostic /\ [][Next]_vars

----------------------------------------------------------------------------
(* SpecSession: a HuginSession that gets its project root and jobs and is  *)
(* written, as main.do_gen_session does.                                   *)

ProjectRoot == <<"p">>
ProjectSketch == P(<<ProjectRoot, <<"p", ".", "i", "n", "o">>>>)

InitSession ==
    /\ hugin_session = NoSession
    /\ out \in {NoOutput, [NoOutput EXCEPT !.dirs = {Out}]}
    /\ disk = NoFiles /\ run = FreshRun
    /\ NoSource /\ NoListing /\ NoWorld /\ NoTargetArgs /\ EmptyDatabase /\ FreshAnalyzer
    /\ ret = NoCall

SetProjectRoot ==
    /\ hugin_session' = set_project_root(hugin_session, ProjectRoot)
    /\ ret' = NoCall
    /\ UNCHANGED <<scanVars, locateVars, targetVars, library_index, storage, disk, run,
                   out, dbVars, counterVars, passVars, added>>

\* create_new_job with one tuple of get_example_sketches_to_extract
CreateNewJob ==
    /\ Len(hugin_session.jobs) < MaxJobs
    /\ \E id \in AnalysisIdentities, s \in {P(<<Blink, Blink \o Ino>>), P(<<Blink, <<"x", ".", "h">>>>)} :
          hugin_session' = create_new_job(hugin_session, ProjectSketch, s, id[1], id[2],
                                          P(<<id[1], id[2], ZipName>>), L)
    /\ ret' = NoCall
    /\ UNCHANGED <<scanVars, locateVars, targetVars, library_index, storage, disk, run,
                   out, dbVars, counterVars, passVars, added>>

\* hugin_session.write()
Write ==
    /\ \E done \in {write(hugin_session, out, Out)} :
          /\ out' = done.out
          /\ ret' = [op |-> "write",
                     value |-> [raised |-> done.raised, error |-> done.error],
                     before |-> out]
    /\ UNCHANGED <<scanVars, locateVars, targetVars, library_index, storage, disk, run,
                   hugin_session, dbVars, counterVars, passVars, added>>

NextSession ==
    \/ SetProjectRoot
    \/ CreateNewJob
    \/ Write

SpecSession == InitSession /\ [][NextSession]_vars

----------------------------------------------------------------------------
(* SpecNames: the example names the analyzer records for the listing of an *)
(* archive, used as the example filter of the extraction on that listing.  *)

\* <root>/examples/Bl//Bl/.ino : a file named .ino below an empty directory
\* name
StemlessSketch == P(<<L, ExamplesDir, Blink, <<>>, Blink, Ino>>)

NamePool ==
    { BlinkIno, FadePde, BlinkH, TopIno, SrcA,
      P(<<L, ExamplesDir, Blink, Fade, Blink, Fade \o Ino>>),
      P(<<L, ExamplesDir, Grp, Blink, Fade \o Ino>>),
      StemlessSketch }

InitNames ==
    /\ filenames \in SeqsUpTo(NamePool, MaxEntries)
    /\ NoSource /\ NoWorld /\ NoTargetArgs /\ EmptyDatabase /\ FreshAnalyzer
    /\ NoRun
    /\ ret = NoCall

\* analyzer.get_headers_in_examples on the archive with this listing
GetHeadersInExamples ==
    /\ ret' = [op |-> "get_headers_in_examples",
               value |-> get_headers_in_examples(
                             Archive([i \in DOMAIN filenames |-> File(filenames[i])]))]
    /\ UNCHANGED <<scanVars, locateVars, worldVars, targetVars, dbVars,
                   counterVars, passVars, added>>

\* the loop "for f in filenames" of the extraction with the recorded
\* example names as its examples argument
SelectSources ==
    /\ ret.op = "get_headers_in_examples"
    /\ \E exs \in {[i \in DOMAIN ret.value.res |-> ret.value.res[i][1]]} :
          ret' = [op |-> "sources_to_extract",
                  arg |-> exs,
                  value |-> SourcesToExtract(filenames, Some(exs))]
    /\ UNCHANGED <<scanVars, locateVars, worldVars, targetVars, dbVars,
                   counterVars, passVars, added>>

NextNames == GetHeadersInExamples \/ SelectSources

SpecNames == InitNames /\ [][NextNames]_vars

----------------------------------------------------------------------------
(* SpecSlice: CodeSlice.get_code_from on a text and two positions.         *)

CodeStrings == SeqsUpTo({"a", "b", NewLine}, MaxCode)

\* CodePosition(lines, columns)
CodePosition(lines, columns) == [lines |-> lines, columns |-> columns]

InitSlice ==
    /\ source \in CodeStrings
    /\ NoListing /\ NoWorld /\ NoTargetArgs /\ EmptyDatabase /\ FreshAnalyzer
    /\ NoRun
    /\ ret = NoCall

GetCodeFrom ==
    /\ \E sl, el \in 1..MaxLine, sc, ec \in 1..MaxColumn :
          ret' = [op |-> "get_code_from",
                  start |-> CodePosition(sl, sc),
                  end |-> CodePosition(el, ec),
                  value |-> get_code_from(CodePosition(sl, sc), CodePosition(el, ec),
                                          source)]
    /\ UNCHANGED <<scanVars, locateVars, worldVars, targetVars, dbVars,
                   counterVars, passVars, added>>

NextSlice == GetCodeFrom

SpecSlice == InitSlice /\ [][NextSlice]_vars

----------------------------------------------------------------------------
(* Properties of compute_extract_targets (SpecTargets).                    *)

TargetsCalled == ret.op = "compute_extract_targets"

\* C1: with version policy ALL, compute_extract_targets returns exactly the
\* candidate targets, one per (name, version), without or with a filter.
C1_AllKeepsEveryCandidate ==
    (TargetsCalled /\ version_flag = ALL_VERSIONS)
        => /\ ~ret.value.raised
           /\ ret.value.targets = Candidates(examples)

\* the indices of the candidates of library name n
CandidatesOf(cands, n) == {i \in DOMAIN cands : cands[i][1].name = n}

\* the first candidate of name n whose version no other candidate of n exceeds
FirstGreatest(cands, n) ==
    LET is == CandidatesOf(cands, n)
        top == {i \in is : \A k \in is :
                   semver_compare(cands[k][1].version, cands[i][1].version) <= 0}
    IN  cands[CHOOSE i \in top : \A j \in top : i <= j]

\* C2: with version policy LATEST, every library name among the candidates
\* gets exactly one target; its version is the greatest of the name's
\* candidate versions under semantic-version comparison, and of candidates
\* with equal versions the first in input order is kept.
C2_LatestKeepsFirstGreatest ==
    (TargetsCalled /\ version_flag = LATEST_VERSIONS)
        => LET cands == Candidates(examples)
               t == ret.value.targets
               names == {cands[i][1].name : i \in DOMAIN cands}
           IN  /\ ~ret.value.raised
               /\ {t[j][1].name : j \in DOMAIN t} = names
               /\ Len(t) = Cardinality(names)
               /\ \A j \in DOMAIN t : t[j] = FirstGreatest(cands, t[j][1].name)

\* C2 witness: LATEST was applied to candidates in which the greatest
\* version of a name is not listed first and occurs twice under two
\* spellings that compare equal
C2_Witness ==
    /\ TargetsCalled
    /\ version_flag = LATEST_VERSIONS
    /\ LET cands == Candidates(examples)
       IN  \E i, j, k \in DOMAIN cands :
              /\ i < j /\ j < k
              /\ cands[i][1] = LibraryInfo(X, V100)
              /\ cands[j][1] = LibraryInfo(X, V120b)
              /\ cands[k][1] = LibraryInfo(X, V120)
              /\ \E m \in DOMAIN ret.value.targets :
                    ret.value.targets[m][1] = LibraryInfo(X, V120b)

----------------------------------------------------------------------------
(* Properties of the header locator (SpecLocate).                          *)

\* the indices of the entries <root>/src/<file>.h or .hpp, ascending
SrcEntries(names) == {i \in DOMAIN names : SrcHeaderMatch(names[i])}

NthOf(S, n) == CHOOSE i \in S : Cardinality({j \in S : j < i}) = n - 1

\* C6: when the listing has a header <root>/src/<file>.h or .hpp, the
\* locator returns the basenames of those src-directory headers and nothing
\* else: no entry directly under the archive root contributes a header.
C6_SrcHeadersTakePrecedence ==
    (ret.op = "get_headers_for_library" /\ SrcEntries(filenames) # {})
        => LET src == SrcEntries(filenames)
           IN  /\ ret.value.some
               /\ Len(ret.value.v) = Cardinality(src)
               /\ \A n \in 1..Cardinality(src) :
                     ret.value.v[n] = Basename(filenames[NthOf(src, n)])

\* C6 witness: a listing with a src-directory header and a root-directory
\* header of another name was located
C6_Witness ==
    /\ ret.op = "get_headers_for_library"
    /\ \E i, j \in DOMAIN filenames :
          /\ filenames[i] = RootR
          /\ filenames[j] = SrcA
          /\ i < j
    /\ ret.value.v = <<a_h>>

----------------------------------------------------------------------------
(* Properties of the include scanner (SpecScan).                           *)

\* one include directive: the keyword, an opening delimiter, a header name
\* free of delimiters and the closing delimiter of the same kind
Closing(open) == IF open = Lt THEN Gt ELSE Quote

WellFormedDirective(d) ==
    /\ IncludeMatch(d)
    /\ d[Len(d)] = Closing(d[Len(IncludeKeyword) + 1])
    /\ \A i \in DOMAIN IncludeGroup2(d) : IncludeGroup2(d)[i] \notin {Quote, Lt, Gt}

\* the line holds a directive with something before it or after its
\* closing delimiter
EmbeddedDirective(line) ==
    \E i, j \in DOMAIN line :
        /\ i > 1 \/ j < Len(line)
        /\ i <= j
        /\ WellFormedDirective(SubSeq(line, i, j))

\* what the claim lets a line contribute: the name of a line that is
\* exactly one directive, nothing for a line with an embedded directive;
\* any other line is left to the scanner
LineYield(line) ==
    IF WellFormedDirective(line) THEN <<IncludeGroup2(line)>>
    ELSE IF EmbeddedDirective(line) THEN <<>>
    ELSE IF IncludeMatch(line) THEN <<IncludeGroup2(line)>>
    ELSE <<>>

\* C10: the scanner never extracts a header from a line in which the
\* include directive is preceded by another token or followed by anything
\* after the closing delimiter; whitespace around the line is ignored, and
\* the header names of the recognized lines are listed in source order,
\* duplicates preserved.
C10_NoHeaderFromEmbeddedDirective ==
    ret.op = "get_included_headers_from_source_code"
        => LET lines == splitlines(source)
           IN  ret.value = Concat([i \in DOMAIN lines |-> LineYield(strip(lines[i]))])

----------------------------------------------------------------------------
(* Properties of the indices under add_* and search (SpecDb).              *)

\* the recorded examples whose fingerprint is non-empty and within hs
Matching(hs) ==
    {k \in DOMAIN added.features :
        added.features[k] # {} /\ added.features[k] \subseteq Range(hs)}

\* C4: search_example_sketches(H) returns a recorded (name, version,
\* example_path) if and only if its fingerprint is non-empty and a subset
\* of H, so an example with an empty fingerprint is returned for no H.
C4_SearchNonEmptySubset ==
    ret.op = "search_example_sketches"
        => /\ Range(ret.value) = Matching(ret.arg)
           /\ Len(ret.value) = Cardinality(Matching(ret.arg))

\* C4 witness: a search over a database holding an example with an empty
\* fingerprint returned another example
C4_Witness ==
    /\ ret.op = "search_example_sketches"
    /\ \E k \in DOMAIN added.features : added.features[k] = {}
    /\ Len(ret.value) = 1

\* the identities that were added with header h in their header list
AddedWith(h) == {<<t[1], t[2]>> : t \in {x \in added.headers : x[3] = h}}

\* C5: search(h) returns exactly the identities added with h in their
\* header list, each once, and the empty sequence for a header never added.
C5_SearchReturnsAddedIdentities ==
    ret.op = "search"
        => /\ {<<ret.value[i].name, ret.value[i].version>> : i \in DOMAIN ret.value}
                  = AddedWith(ret.arg)
           /\ Len(ret.value) = Cardinality(AddedWith(ret.arg))

\* C5 witness: a search returned two identities after two additions
C5_Witness ==
    /\ ret.op = "search"
    /\ added.calls = 2
    /\ Len(ret.value) = 2

----------------------------------------------------------------------------
(* Properties of the analysis pass (Spec, FairSpec).                       *)

\* the library the next loop iteration processes
Processing == pc = "loop" /\ idx < Len(get_library_info_list)
Current == get_library_info_list[idx + 1]

\* self.feature_data.libraries[name][version].examples[example], if any
FeatureLookup(libraries, name, version, example) ==
    IF /\ DictHas(libraries, name)
       /\ DictHas(DictGet(libraries, name), version)
       /\ DictHas(DictGet(DictGet(libraries, name), version), example)
    THEN Some(DictGet(DictGet(DictGet(libraries, name), version), example))
    ELSE None

\* C3: every fingerprint written to the FeatureIndex for a library during
\* a pass is a subset of the header inventory computed for that library in
\* that pass.
C3_FingerprintWithinInventory ==
    \A i \in DOMAIN pass_log :
        LET e == pass_log[i]
        IN  \A k \in DOMAIN e.features :
                LET fp == FeatureLookup(feature_data, e.lib.name, e.lib.version,
                                        e.features[k][1])
                IN  /\ fp.some
                    /\ Range(fp.v) \subseteq Range(e.headers.v)

\* C3 witness: a sketch including a.h, r.h and o.h of a library whose
\* inventory is a.h got the fingerprint a.h
C3_Witness ==
    \E i \in DOMAIN pass_log :
        /\ pass_log[i].headers = Some(<<a_h>>)
        /\ FeatureLookup(feature_data, pass_log[i].lib.name, pass_log[i].lib.version,
                         Blink) = Some(<<a_h>>)

\* C7: processing a library whose archive is malformed adds exactly 1 to
\* n_failed_libraries and leaves the HeaderIndex and the FeatureIndex as
\* they were.
C7_MalformedCountedOnceNothingWritten ==
    [][(Processing /\ ~ArchiveOf(Current).ok)
          => /\ n_failed_libraries' = n_failed_libraries + 1
             /\ header_dict' = header_dict
             /\ feature_data' = feature_data]_vars

\* C7 witness: a malformed library was processed after a library that
\* wrote entries to both indices
C7_Witness ==
    /\ Len(pass_log) = 2
    /\ pass_log[1].features # <<>>
    /\ ~pass_log[2].headers.some
    /\ header_dict # <<>>
    /\ n_failed_libraries = 1

\* the pass has an entry for every library of the list, and the indices
\* hold the headers and the decodable sketches of every archive that opens
BatchComplete ==
    LET info_list == get_library_info_list
    IN  /\ Len(pass_log) = Len(info_list)
        /\ \A i \in DOMAIN info_list :
              LET lib == info_list[i]
                  ar == ArchiveOf(lib)
              IN  /\ pass_log[i].lib = lib
                  /\ ar.ok =>
                        /\ \A h \in Range(HeadersInListing(namelist(ar))) :
                              /\ DictHas(header_dict, h)
                              /\ LibKey(lib.name, lib.version) \in DictGet(header_dict, h)
                        /\ \A j \in DOMAIN ar.entries :
                              (SketchMatch(ar.entries[j].name) /\ ar.entries[j].decodable)
                                  => FeatureLookup(feature_data, lib.name, lib.version,
                                                   ExampleNameOf(ar.entries[j].name)).some

NoHeaderArchive(ar) ==
    /\ ar.ok
    /\ \A i \in DOMAIN ar.entries :
          ~SrcHeaderMatch(ar.entries[i].name) /\ ~RootHeaderMatch(ar.entries[i].name)

SketchEntries(ar) == {i \in DOMAIN ar.entries : SketchMatch(ar.entries[i].name)}

----------------------------------------------------------------------------
(* Further properties of the include scanner (SpecScan).                   *)

\* C11: a line is recognized only if it is exactly one directive whose
\* delimiters form a matching pair and that names one header: the scanner
\* returns the names of those lines, in order, and nothing for any other
\* line (such as #include "a.h> or #include <a.h> <b.h>).
C11_OnlyMatchingDelimiters ==
    ret.op = "get_included_headers_from_source_code"
        => LET lines == splitlines(source)
           IN  ret.value = Concat([i \in DOMAIN lines |->
                   IF WellFormedDirective(strip(lines[i]))
                   THEN <<IncludeGroup2(strip(lines[i]))>> ELSE <<>>])

\* a scanned text has a line that opens with < and closes with a quote,
\* and a header was returned
C11_Witness ==
    /\ ret.op = "get_included_headers_from_source_code"
    /\ source = IncludeKeyword \o <<Lt>> \o a_h \o <<Quote>>
    /\ ret.value # <<>>

----------------------------------------------------------------------------
(* Properties of the example locator (SpecLocate).                         *)

\* <root>/examples/[<groups>/]<name>/<name>.ino or .pde: the file's
\* basename without its extension is the name of the directory that
\* immediately contains it
NamedAfterDirectory(f) ==
    LET segs == Split(f, Slash)
        n == Len(segs)
    IN  /\ n >= 4
        /\ segs[1] # <<>>
        /\ segs[2] = ExamplesDir
        /\ segs[n - 1] # <<>>
        /\ \E ext \in SketchExts : segs[n] = segs[n - 1] \o ext

\* C12: get_example_sketches returns an entry if and only if it lies under
\* <root>/examples/, has extension ino or pde and is named after its
\* immediate containing directory; the result keeps the listing order and
\* is empty when nothing matches.
C12_SketchNamedAfterItsDirectory ==
    ret.op = "get_example_sketches"
        => ret.value = SelectSeq(filenames, NamedAfterDirectory)

\* a listing with examples/Bl/Fa/Bl/Fa.ino, whose file Fa.ino sits in a
\* directory named Bl, was searched and an entry was returned
C12_Witness ==
    /\ ret.op = "get_example_sketches"
    /\ filenames = <<P(<<L, ExamplesDir, Blink, Fade, Blink, Fade \o Ino>>)>>
    /\ ret.value # <<>>

----------------------------------------------------------------------------
(* Properties of serialization (SpecDb).                                   *)

\* a dict as a map: its set of <<key, value>>
AsMap(d) == Range(d)

\* a feature database as a map from (name, version, example) to header set
FeaturesAsMap(libraries) ==
    {<<it[1], it[2], it[3], Range(it[4])>> : it \in Range(FeatureItems(libraries))}

\* C13: deserializing what was serialized gives equal indices: the
\* HeaderIndex as a map from header name to set of identities, the
\* FeatureIndex with the same libraries, versions, example paths and
\* header sets, the empty ones included.
C13_SerializeRoundTrip ==
    /\ ret.op = "serialize_header_dictionary"
          => AsMap(deserialize_header_dictionary(ret.value)) = AsMap(header_dict)
    /\ ret.op = "serialize"
          => /\ FeaturesAsMap(deserialize(<<>>, ret.value)) = FeaturesAsMap(feature_data)
             /\ FeaturesAsMap(feature_data) =
                   {<<k[1], k[2], k[3], added.features[k]>> : k \in DOMAIN added.features}

\* a header dictionary in which a header has two libraries was serialized
C13_Witness ==
    /\ ret.op = "serialize_header_dictionary"
    /\ \E i \in DOMAIN ret.value : Len(ret.value[i][2]) = 2

\* a feature database holding an example with an empty header list was
\* serialized
C13_FeatureWitness ==
    /\ ret.op = "serialize"
    /\ \E it \in Range(FeatureItems(feature_data)) : it[4] = <<>>

----------------------------------------------------------------------------
(* Properties of the runs of the find_headers command (SpecRun).           *)

\* C14: a run over unchanged libraries and archives persists a HeaderIndex
\* and a FeatureIndex identical to those persisted by the run before it.
C14_RerunPersistsIdenticalIndices ==
    \A k \in 1..(Len(run.saves) - 1) :
        run.saves[k + 1].unchanged
            => /\ run.saves[k + 1].disk.headers = run.saves[k].disk.headers
               /\ run.saves[k + 1].disk.features = run.saves[k].disk.features

\* two runs over unchanged libraries were completed, and what they
\* persisted names two libraries for one header
C14_Witness ==
    /\ Len(run.saves) = 2
    /\ run.saves[2].unchanged
    /\ \E i \in DOMAIN disk.headers.v : Len(disk.headers.v[i][2]) = 2

\* the last run was completed and nothing changed since
RunComplete == pc = "exit" /\ run.saves # <<>> /\ ~run.crashed /\ ~run.changed

\* the example names of the persisted FeatureIndex for a library
PersistedExamples(lib) ==
    {it[3] : it \in {x \in Range(SerializedItems(disk.features.v)) :
                        x[1] = lib.name /\ x[2] = lib.version}}

\* C15: after a run, the persisted HeaderIndex maps a header to a library
\* only when the header is in the inventory the run computed for it, and
\* the persisted FeatureIndex holds for the library only the examples the
\* run found: nothing of an earlier run over another archive remains.
C15_ReanalysisLeavesNoStaleEntry ==
    RunComplete
        => \A n \in DOMAIN get_library_info_list :
              LET lib == get_library_info_list[n]
                  ar == ArchiveOf(lib)
              IN  ar.ok
                    => /\ \A i \in DOMAIN disk.headers.v :
                             LibraryInfo(lib.name, lib.version) \in Range(disk.headers.v[i][2])
                                => disk.headers.v[i][1] \in Range(HeadersInListing(namelist(ar)))
                       /\ PersistedExamples(lib)
                             \subseteq {e[1] : e \in Range(get_headers_in_examples(ar).res)}

\* a run was completed over a library whose archive had been replaced
\* after an earlier run by one without the header a.h, and the persisted
\* HeaderIndex has an entry for a.h
C15_Witness ==
    /\ pc = "exit"
    /\ Len(run.saves) = 2
    /\ ~run.saves[2].unchanged
    /\ ~run.changed
    /\ \E n \in DOMAIN get_library_info_list :
          /\ ArchiveOf(get_library_info_list[n]).ok
          /\ a_h \notin Range(HeadersInListing(namelist(ArchiveOf(get_library_info_list[n]))))
    /\ \E i \in DOMAIN disk.headers.v : disk.headers.v[i][1] = a_h

\* C16: whenever the process has stopped, the persisted library index,
\* header dictionary and feature database are all the values from before
\* the save or all the values of the state being saved, never files of
\* the one with files of the other.
C16_SaveIsAllOrNothing ==
    pc = "exit"
        => \/ disk = run.before
           \/ /\ disk.index = Some(library_index)
              /\ disk.headers.some
              /\ disk.headers.v \in serialize_header_dictionary(header_dict)
              /\ disk.features = Some(serialize(feature_data))

\* the process stopped after it had written the header dictionary
C16_Witness ==
    /\ pc = "exit"
    /\ run.crashed
    /\ disk.headers # run.before.headers

----------------------------------------------------------------------------
(* Further properties of compute_extract_targets (SpecTargets).            *)

\* the example paths of the filter triples with this name and version, in
\* filter order
FilterPaths(filter, name, version) ==
    LET hits == SelectSeq(filter, LAMBDA e : e[1] = name /\ e[2] = version)
    IN  [i \in DOMAIN hits |-> hits[i][3]]

\* C17: with an example filter the candidate targets hold each (name,
\* version) at most once, only locally present library versions, and the
\* example list of a target is the example paths of the filter triples of
\* that name and version in filter order; without a filter the example
\* list of every target is the marker for all examples.  Every returned
\* target is one of the candidates.
C17_CandidatesGroupTheFilter ==
    TargetsCalled
        => LET cands == Candidates(examples)
               t == ret.value.targets
           IN  /\ \A j \in DOMAIN t : t[j] \in Range(cands)
               /\ \A i \in DOMAIN cands :
                     is_downloaded(cands[i][1].name, cands[i][1].version)
               /\ ~examples.some => \A i \in DOMAIN cands : cands[i][2] = None
               /\ examples.some =>
                     /\ \A i, j \in DOMAIN cands : cands[i][1] = cands[j][1] => i = j
                     /\ \A i \in DOMAIN cands :
                           cands[i][2] = Some(FilterPaths(examples.v, cands[i][1].name,
                                                          cands[i][1].version))
                     /\ \A k \in DOMAIN examples.v :
                           is_downloaded(examples.v[k][1], examples.v[k][2])
                              => \E i \in DOMAIN cands :
                                    cands[i][1] = LibraryInfo(examples.v[k][1], examples.v[k][2])

\* a target with two example paths was returned for a filter that also
\* names a library version that is not locally present
C17_Witness ==
    /\ TargetsCalled
    /\ examples.some
    /\ \E k \in DOMAIN examples.v : ~is_downloaded(examples.v[k][1], examples.v[k][2])
    /\ \E j \in DOMAIN ret.value.targets : Len(ret.value.targets[j][2].v) = 2

----------------------------------------------------------------------------
(* Properties of the extraction (SpecExtract).                             *)

\* the targets of the call the state describes
ExtractTargets == compute_extract_targets(examples, version_flag).targets

\* the archive of the target opens and has a top-level directory entry
Resolves(target) ==
    /\ ArchiveOf(target[1]).ok
    /\ \E i \in DOMAIN ArchiveOf(target[1]).entries :
          LET p == ArchiveOf(target[1]).entries[i].name
          IN  /\ Len(p) >= 2
              /\ p[Len(p)] = Slash
              /\ \A k \in 1..(Len(p) - 1) : p[k] # Slash

\* C18: a target that cannot be resolved (malformed archive, no root
\* directory entry) is skipped alone: get_example_sketches_to_extract still
\* returns a list, holding the tuple of every target that resolves, those
\* resolved before the failing one included.
C18_FailureSkipsOnlyThatTarget ==
    (ret.op = "get_example_sketches_to_extract" /\ ~ret.value.raised) =>
        /\ ret.value.res.some
        /\ \A i \in DOMAIN ExtractTargets :
              Resolves(ExtractTargets[i]) =>
                 \E j \in DOMAIN ret.value.res.v :
                    /\ ret.value.res.v[j][2] = ExtractTargets[i][1].name
                    /\ ret.value.res.v[j][3] = ExtractTargets[i][1].version

\* the call was made with a first target that resolves and a later one that
\* does not
C18_Witness ==
    /\ ret.op = "get_example_sketches_to_extract"
    /\ ~ret.value.raised
    /\ Len(ExtractTargets) = 2
    /\ Resolves(ExtractTargets[1])
    /\ ~Resolves(ExtractTargets[2])

\* the ways to read name as <root>/examples/<example_path>/<filename> with
\* an extension of an example source: <<example_path, filename>>
ExampleSourceParts(name) ==
    {<<SubSeq(name, i + Len(SlashExamplesSlash), j - 1), SubSeq(name, j + 1, Len(name))>> :
        <<i, j>> \in {<<a, b>> \in (1..Len(name)) \X (1..Len(name)) :
            /\ a > 1
            /\ \A k \in 1..(a - 1) : name[k] # Slash
            /\ a + Len(SlashExamplesSlash) - 1 <= Len(name)
            /\ SubSeq(name, a, a + Len(SlashExamplesSlash) - 1) = SlashExamplesSlash
            /\ b > a + Len(SlashExamplesSlash)
            /\ name[b] = Slash
            /\ \A k \in (b + 1)..Len(name) : name[k] # Slash
            /\ \E d \in (b + 2)..(Len(name) - 1) :
                  /\ name[d] = "."
                  /\ SubSeq(name, d + 1, Len(name)) \in
                        { <<"i", "n", "o">>, <<"p", "d", "e">>, <<"c">>, <<"h">>,
                          <<"c", "p", "p">>, <<"h", "p", "p">>, <<"c", "x", "x">>,
                          <<"h", "x", "x">>, <<"c", "c">> }}}

\* the files the claim expects for a target: for each entry of its archive
\* that is an example source of an allowed example, the destination path
\* and the bytes of the entry
ExpectedFiles(target) ==
    IF ~ArchiveOf(target[1]).ok THEN {}
    ELSE {[path |-> P(<<Out, target[1].name, target[1].version, parts[1], parts[2]>>),
           content |-> [decodable |-> e.decodable, text |-> e.text]] :
             <<e, parts>> \in
                {<<en, pt>> \in Range(ArchiveOf(target[1]).entries)
                                     \X UNION {ExampleSourceParts(x.name) :
                                                 x \in Range(ArchiveOf(target[1]).entries)} :
                    /\ pt \in ExampleSourceParts(en.name)
                    /\ target[2].some => pt[1] \in Range(target[2].v)}}

----------------------------------------------------------------------------
(* Properties of CodeSlice (SpecSlice).                                    *)

\* the slice lies within the text: both lines exist and both columns exist
\* on their lines
SliceWithin(lines, start, end) ==
    /\ start.lines <= end.lines
    /\ end.lines <= Len(lines)
    /\ start.columns <= Len(lines[start.lines])
    /\ end.columns <= Len(lines[end.lines])
    /\ start.lines = end.lines => start.columns <= end.columns

\* the text of the slice, each line followed by one newline
SliceText(lines, start, end) ==
    IF start.lines = end.lines
    THEN SubSeq(lines[start.lines], start.columns, end.columns) \o <<NewLine>>
    ELSE SubSeq(lines[start.lines], start.columns, Len(lines[start.lines]))
            \o <<NewLine>>
            \o Concat([k \in 1..(end.lines - start.lines - 1) |->
                          lines[start.lines + k] \o <<NewLine>>])
            \o SubSeq(lines[end.lines], 1, end.columns) \o <<NewLine>>

\* the lines of the text: the text cut at its newlines
RECURSIVE LinesOf(_, _)
LinesOf(s, cur) ==
    IF s = <<>> THEN (IF cur = <<>> THEN <<>> ELSE <<cur>>)
    ELSE IF Head(s) = NewLine THEN <<cur>> \o LinesOf(Tail(s), <<>>)
    ELSE LinesOf(Tail(s), Append(cur, Head(s)))

\* C20: get_code_from returns the text of the slice from (start line,
\* start column) to (end line, end column), 1-based and inclusive, each
\* line followed by one newline; a slice within one line yields the
\* characters of that line from the start column to the end column, once.
C20_SliceIsTheTextBetween ==
    (ret.op = "get_code_from" /\ SliceWithin(LinesOf(source, <<>>), ret.start, ret.end)) =>
        /\ ~ret.value.raised
        /\ ret.value.value = SliceText(LinesOf(source, <<>>), ret.start, ret.end)

\* get_code_from was called with a slice that starts and ends on one line
C20_Witness ==
    /\ ret.op = "get_code_from"
    /\ SliceWithin(LinesOf(source, <<>>), ret.start, ret.end)
    /\ ret.start.lines = ret.end.lines
    /\ ret.start.columns < ret.end.columns

\* get_code_from was called with a slice over three lines, and returned
\* the text of the slice
C20_SeveralLinesWitness ==
    /\ ret.op = "get_code_from"
    /\ SliceWithin(LinesOf(source, <<>>), ret.start, ret.end)
    /\ ret.end.lines = ret.start.lines + 2
    /\ ret.value.value = SliceText(LinesOf(source, <<>>), ret.start, ret.end)

----------------------------------------------------------------------------
(* Further properties of the analysis pass (Spec).                         *)

\* the sketches of the archive whose bytes cannot be decoded
Undecodable(ar) == {i \in SketchEntries(ar) : ~ar.entries[i].decodable}

\* what C21 and its amended form share: processing a library with sketches
\* that cannot be decoded adds 1 to n_failed_example_sketches for each of
\* them, writes no fingerprint for them, and writes the header inventory
\* and the fingerprints of the other sketches
DecodeFailureIsolated ==
    LET lib == Current
        ar == ArchiveOf(lib)
        last == pass_log'[Len(pass_log')]
    IN  /\ n_failed_example_sketches' =
              n_failed_example_sketches + Cardinality(Undecodable(ar))
        /\ \A i \in Undecodable(ar) :
              \A k \in DOMAIN last.features :
                 last.features[k][1] # ExampleNameOf(ar.entries[i].name)
        /\ \A i \in SketchEntries(ar) \ Undecodable(ar) :
              /\ \E k \in DOMAIN last.features :
                    last.features[k][1] = ExampleNameOf(ar.entries[i].name)
              /\ FeatureLookup(feature_data', lib.name, lib.version,
                               ExampleNameOf(ar.entries[i].name)).some
        /\ last.headers = Some(HeadersInListing(namelist(ar)))
        /\ \A h \in Range(HeadersInListing(namelist(ar))) :
              /\ DictHas(header_dict', h)
              /\ LibKey(lib.name, lib.version) \in DictGet(header_dict', h)

----------------------------------------------------------------------------
(* Further properties of the extraction (SpecExtract).                     *)

\* the top-level directories of the archive of the target, in listing order
TopLevelDirectories(target) ==
    LET es == ArchiveOf(target[1]).entries
        at == {i \in DOMAIN es :
                  /\ Len(es[i].name) >= 2
                  /\ es[i].name[Len(es[i].name)] = Slash
                  /\ \A k \in 1..(Len(es[i].name) - 1) : es[i].name[k] # Slash}
    IN  [n \in 1..Cardinality(at) |->
            LET i == CHOOSE j \in at : Cardinality({x \in at : x < j}) = n - 1
            IN  SubSeq(es[i].name, 1, Len(es[i].name) - 1)]

\* the files of the target that come from entries below <root>/examples,
\* root being the first top-level directory of its archive
FilesUnderRoot(target) ==
    IF ~Resolves(target) THEN {}
    ELSE LET root == TopLevelDirectories(target)[1]
         IN  {[path |-> P(<<Out, target[1].name, target[1].version, parts[1], parts[2]>>),
               content |-> [decodable |-> e.decodable, text |-> e.text]] :
                 <<e, parts>> \in
                    {<<en, pt>> \in Range(ArchiveOf(target[1]).entries)
                                       \X UNION {ExampleSourceParts(x.name) :
                                                   x \in Range(ArchiveOf(target[1]).entries)} :
                        /\ pt \in ExampleSourceParts(en.name)
                        /\ SubSeq(en.name, 1, Len(root) + 1) = root \o <<Slash>>}}

\* C22: every example source reported for a target lies below the examples
\* directory of the first top-level directory of its archive: no path
\* listed by get_example_sketches_to_extract leaves <root>/examples, and
\* every file extract_example_sketches writes for an archive with a root
\* directory comes from an entry below <root>/examples.
C22_SourcesLieUnderTheRoot ==
    /\ (ret.op = "get_example_sketches_to_extract" /\ ~ret.value.raised
           /\ ret.value.res.some) =>
          \A j \in DOMAIN ret.value.res.v :
             /\ \E i \in DOMAIN ExtractTargets :
                   /\ ExtractTargets[i][1].name = ret.value.res.v[j][2]
                   /\ ExtractTargets[i][1].version = ret.value.res.v[j][3]
                   /\ ret.value.res.v[j][5] = TopLevelDirectories(ExtractTargets[i])[1]
             /\ \A k \in DOMAIN ret.value.res.v[j][1] :
                   SubSeq(ret.value.res.v[j][1][k], 1, 2) # <<".", ".">>
    /\ (ret.op = "extract_example_sketches" /\ ~ret.value.raised) =>
          \A k \in DOMAIN ret.value.written :
             \E i \in DOMAIN ExtractTargets :
                /\ ret.value.written[k] \in ExpectedFiles(ExtractTargets[i])
                /\ Resolves(ExtractTargets[i]) =>
                      ret.value.written[k] \in FilesUnderRoot(ExtractTargets[i])

\* the sources of a target whose archive has two top-level directories, with
\* example sources below both, were listed
C22_Witness ==
    /\ ret.op = "get_example_sketches_to_extract"
    /\ ~ret.value.raised
    /\ ret.value.res.some
    /\ \E i \in DOMAIN ExtractTargets :
          /\ Len(TopLevelDirectories(ExtractTargets[i])) = 2
          /\ \E j \in DOMAIN ret.value.res.v :
                /\ ret.value.res.v[j][2] = ExtractTargets[i][1].name
                /\ Len(ret.value.res.v[j][1]) = 2

\* the files of a target whose archive has two top-level directories were
\* written
C22_ExtractWitness ==
    /\ ret.op = "extract_example_sketches"
    /\ ~ret.value.raised
    /\ Len(ret.value.written) = 2
    /\ \E i \in DOMAIN ExtractTargets : Len(TopLevelDirectories(ExtractTargets[i])) = 2

----------------------------------------------------------------------------
(* Properties of the materialization (SpecMaterialize).                    *)

\* the files below output_path: [path, content]
FilesOf(tree) ==
    {[path |-> tree.files[k][1], content |-> tree.files[k][2]] : k \in DOMAIN tree.files}

\* the creation of a directory of this target fails
CreationFails(tree, target) ==
    \E p \in tree.blocked :
        LET dir == P(<<Out, target[1].name>>)
        IN  Len(p) >= Len(dir) /\ SubSeq(p, 1, Len(dir)) = dir

\* C23: directories that exist before the call are not an error and the
\* files in them are kept; a directory that cannot be created or an
\* archive that cannot be opened stops its own target only: the example
\* sources of every other target are written.
C23_FailuresStopOnlyTheirTarget ==
    ret.op = "extract_example_sketches" =>
        /\ ret.value.before.blocked = {} => ~ret.value.raised
        /\ FilesOf(ret.value.before) \subseteq FilesOf(out)
        /\ \A i \in DOMAIN ExtractTargets :
              ~CreationFails(ret.value.before, ExtractTargets[i])
                 => ExpectedFiles(ExtractTargets[i]) \subseteq FilesOf(out)

\* the call was made on an output directory in which the library directory
\* of the first of two targets cannot be created, the archive of the second
\* target holding example sources
C23_Witness ==
    /\ ret.op = "extract_example_sketches"
    /\ Len(ExtractTargets) = 2
    /\ CreationFails(ret.value.before, ExtractTargets[1])
    /\ ~CreationFails(ret.value.before, ExtractTargets[2])
    /\ ExpectedFiles(ExtractTargets[2]) # {}

\* the call was made on the output directory of an earlier extraction, after
\* a target whose archive is malformed: the old file is kept, the files of
\* the second target are written
C23_AccumulationWitness ==
    /\ ret.op = "extract_example_sketches"
    /\ ~ret.value.raised
    /\ ret.value.before.files # <<>>
    /\ Len(ExtractTargets) = 2
    /\ ~ArchiveOf(ExtractTargets[1][1]).ok
    /\ Len(out.files) = 1 + Cardinality(ExpectedFiles(ExtractTargets[2]))
    /\ ExpectedFiles(ExtractTargets[2]) # {}

----------------------------------------------------------------------------
(* The version policy of compute_extract_targets (SpecTargets).            *)

\* C24: a version policy other than ALL and LATEST is always an error:
\* compute_extract_targets raises and returns no target, whatever the
\* candidates are (none, or every library name once).
C24_InvalidPolicyAlwaysRaises ==
    (TargetsCalled /\ version_flag \notin {ALL_VERSIONS, LATEST_VERSIONS})
        => /\ ret.value.raised
           /\ ret.value.targets = <<>>

\* the call was made with an invalid policy and two candidates of
\* different names
C24_Witness ==
    /\ TargetsCalled
    /\ version_flag \notin {ALL_VERSIONS, LATEST_VERSIONS}
    /\ Len(Candidates(examples)) = 2
    /\ Candidates(examples)[1][1].name # Candidates(examples)[2][1].name

\* the call was made with an invalid policy and two candidates of one
\* name, and raised
C24_RaisedWitness ==
    /\ TargetsCalled
    /\ version_flag \notin {ALL_VERSIONS, LATEST_VERSIONS}
    /\ Len(Candidates(examples)) = 2
    /\ Candidates(examples)[1][1].name = Candidates(examples)[2][1].name
    /\ ret.value.raised

----------------------------------------------------------------------------
(* The diagnostic of the analysis pass (SpecDiagnostic).                   *)

\* C25: processing a library emits the diagnostic 'found examples but the
\* library has no header' if and only if its header inventory is empty and
\* at least one example sketch was found in its archive, whatever the
\* sketches include; the diagnostic does not count the library as failed.
C25_DiagnosticIffNoHeaderButExamples ==
    [][(Processing /\ ArchiveOf(Current).ok)
          => LET ar == ArchiveOf(Current)
                 last == pass_log'[Len(pass_log')]
             IN  /\ last.warned <=> (NoHeaderArchive(ar) /\ SketchEntries(ar) # {})
                 /\ (last.warned /\ Undecodable(ar) = {})
                       => n_failed_libraries' = n_failed_libraries]_vars

\* a library without headers was processed whose first sketch includes
\* headers and whose last sketch includes none
C25_Witness ==
    \E i \in DOMAIN pass_log :
        /\ pass_log[i].headers = Some(<<>>)
        /\ Len(pass_log[i].features) = 2
        /\ get_included_headers_from_source_code(
              ArchiveOf(pass_log[i].lib).entries[1].text) # <<>>
        /\ get_included_headers_from_source_code(
              ArchiveOf(pass_log[i].lib).entries[2].text) = <<>>

\* the diagnostic was emitted for a library that was not counted as failed
C25_EmittedWitness ==
    /\ Len(pass_log) = 1
    /\ pass_log[1].warned
    /\ n_failed_libraries = 0

----------------------------------------------------------------------------
(* The counters of the analysis pass (Spec).                               *)

\* the number of sketches that cannot be decoded in the archives of the
\* first n libraries of the pass
RECURSIVE UndecodableIn(_)
UndecodableIn(n) ==
    IF n = 0 THEN 0
    ELSE UndecodableIn(n - 1)
            + (IF ArchiveOf(pass_log[n].lib).ok
               THEN Cardinality(Undecodable(ArchiveOf(pass_log[n].lib)))
               ELSE 0)

\* the libraries of the pass with a malformed archive or with a sketch
\* that cannot be decoded
FailedInPass ==
    {i \in DOMAIN pass_log :
        \/ ~ArchiveOf(pass_log[i].lib).ok
        \/ Undecodable(ArchiveOf(pass_log[i].lib)) # {}}

\* C26: after every pass, a second pass on the same Analyzer included,
\* 0 <= n_failed_libraries <= n_libraries with each library counted at most
\* once, and 0 <= n_failed_example_sketches <= n_example_sketches, both
\* counting the pass that has just ended only.
C26_CountersConsistentAfterEveryPass ==
    pc = "done" =>
        /\ 0 <= n_failed_libraries /\ n_failed_libraries <= n_libraries
        /\ n_failed_libraries = Cardinality(FailedInPass)
        /\ 0 <= n_failed_example_sketches
        /\ n_failed_example_sketches <= n_example_sketches
        /\ n_failed_example_sketches = UndecodableIn(Len(pass_log))

\* a second pass over a library with a sketch that cannot be decoded ended
C26_Witness ==
    /\ pc = "done"
    /\ passes = 2
    /\ \E i \in DOMAIN pass_log :
          /\ pass_log[i].headers.some
          /\ Undecodable(ArchiveOf(pass_log[i].lib)) # {}

----------------------------------------------------------------------------
(* The fetch command and the persisted indices (SpecFetch).                *)

\* the files hold a non-empty HeaderIndex and a non-empty FeatureIndex
AnalysisPersisted(files) ==
    /\ files.headers.some /\ files.headers.v # <<>>
    /\ files.features.some /\ files.features.v # <<>>

\* db.search(h) and db.search_example_sketches([h]) of a command that loads
\* the database from the files
SearchOn(files, h) ==
    <<search(IF files.headers.some
             THEN deserialize_header_dictionary(files.headers.v) ELSE <<>>, h),
      search_example_sketches(IF files.features.some
                              THEN deserialize(<<>>, files.features.v) ELSE <<>>, <<h>>)>>

\* C27: the fetch command leaves a persisted non-empty HeaderIndex and
\* FeatureIndex as they were, and a search after it returns what it
\* returned before it.
C27_FetchKeepsTheAnalysis ==
    (ret.op = "do_fetch" /\ AnalysisPersisted(ret.before)) =>
        /\ disk.headers = ret.before.headers
        /\ disk.features = ret.before.features
        /\ \A h \in HeaderNames : SearchOn(disk, h) = SearchOn(ret.before, h)

\* the fetch command ran after a find_headers command had persisted both
\* indices, a header of which is found by a search
C27_Witness ==
    /\ ret.op = "do_fetch"
    /\ AnalysisPersisted(ret.before)
    /\ \E h \in HeaderNames : SearchOn(ret.before, h)[1] # {<<>>}

----------------------------------------------------------------------------
(* Reloading the indices (SpecReload).                                     *)

\* the indices the files hold: empty when a file does not exist
PersistedHeaders ==
    IF disk.headers.some THEN deserialize_header_dictionary(disk.headers.v) ELSE <<>>

PersistedFeatures ==
    IF disk.features.some THEN deserialize(<<>>, disk.features.v) ELSE <<>>

\* C28: after load(force=True) the HeaderIndex and the FeatureIndex in
\* memory are the persisted ones, whatever they were before: what was
\* added since the last save is in neither of them.
C28_ReloadDiscardsUnsavedEntries ==
    ret.op = "load" =>
        /\ AsMap(header_dict) = AsMap(PersistedHeaders)
        /\ FeaturesAsMap(feature_data) = FeaturesAsMap(PersistedFeatures)

\* load(force=True) was called after a save and an add_feature_database_entry
\* that was not saved
C28_Witness ==
    /\ ret.op = "load"
    /\ disk.features.some
    /\ FeaturesAsMap(ret.before.feature_data) # FeaturesAsMap(PersistedFeatures)

\* load(force=True) was called after a save and an add_header_dictionary_entry
\* that was not saved, and dropped the entry
C28_HeaderWitness ==
    /\ ret.op = "load"
    /\ disk.headers.some
    /\ AsMap(ret.before.header_dict) # AsMap(PersistedHeaders)
    /\ AsMap(header_dict) = AsMap(PersistedHeaders)

----------------------------------------------------------------------------
(* Writing a HuginSession (SpecSession).                                   *)

\* C29: a HuginSession whose project root was set and to which jobs were
\* added is written without an error to a destination that does not exist:
\* the destination then holds the session file and one job file per job.
C29_SessionCanBeWritten ==
    (/\ ret.op = "write"
     /\ hugin_session.project_root.some
     /\ Out \notin ret.before.dirs)
        => /\ ~ret.value.raised
           /\ Len(out.files) = 1 + Len(hugin_session.jobs)

\* write() was called on a session with its project root set and two jobs,
\* the destination not existing
C29_Witness ==
    /\ ret.op = "write"
    /\ hugin_session.project_root.some
    /\ Len(hugin_session.jobs) = 2
    /\ Out \notin ret.before.dirs

----------------------------------------------------------------------------
(* The example name of the analyzer and of the extraction (SpecNames).     *)

\* C30: for every entry get_example_sketches recognizes, the example name
\* the analyzer records equals the example group the extraction computes
\* for that entry, so the recorded names, passed as the example filter,
\* select every recognized sketch.
C30_RecordedNameSelectsItsSketch ==
    ret.op = "sources_to_extract"
        => \A i \in DOMAIN filenames :
              SketchMatch(filenames[i])
                  => /\ SourceGroup1(filenames[i]).some
                     /\ SourceGroup1(filenames[i]).v = ExampleNameOf(filenames[i])
                     /\ filenames[i] \in Range(ret.value)

\* the sketch of an example in a subdirectory was recorded under its path
\* below examples/ and the filter selected it
C30_Witness ==
    /\ ret.op = "sources_to_extract"
    /\ P(<<Grp, Fade>>) \in Range(ret.arg)
    /\ FadePde \in Range(ret.value)

\* the names agree on every recognized sketch whose file name has a stem
C30_StemWitness ==
    /\ ret.op = "sources_to_extract"
    /\ Len(ret.arg) = MaxEntries
    /\ \A i \in DOMAIN filenames :
          /\ filenames[i] # StemlessSketch
          /\ SketchMatch(filenames[i])
          /\ SourceGroup1(filenames[i]) = Some(ExampleNameOf(filenames[i]))
          /\ filenames[i] \in Range(ret.value)

====
